---- MODULE Spec2Model ----
(***************************************************************************)
(* MovieFlix: the caching TMDB client (Api.mjs), the favorites store       *)
(* (Favorites.mjs) and the view-state controller (App.mjs, with the parts  *)
(* of Ui.mjs the controller drives), as a state machine.                   *)
(*                                                                         *)
(* JavaScript runs one macrotask at a time: an event handler, a timer or   *)
(* the arrival of a network response runs, together with every microtask   *)
(* continuation it unblocks, before the next one starts.  Every action     *)
(* below is one such macrotask.                                            *)
(***************************************************************************)
EXTENDS Integers, Sequences, FiniteSets, TLC

(***************************************************************************)
(* Bounds of the model.                                                    *)
(***************************************************************************)
MaxCalls == 2
MaxLen == 3
MaxSorts == 2
MaxIntents == 2
MaxClicks == 2
MaxViews == 2
MaxVideos == 3
MaxStartupIntents == 1

(***************************************************************************)
(* Program constants.                                                      *)
(***************************************************************************)
GenresHours == 24
TrendingHours == 1
MovieHours == 24
VideosHours == 24
MaxPage == 10
TrendingTop == 10
DebounceMs == 500

MsPerHour == 60 * 60 * 1000

BASE_URL == "BASE_URL"
API_KEY == "API_KEY"

(***************************************************************************)
(* Time.  Date.now() in milliseconds, counted from an origin two days      *)
(* before the page is loaded, so that entries written by earlier sessions  *)
(* have timestamps >= 0.                                                   *)
(***************************************************************************)
StartTime == 2 * 24 * MsPerHour

\* The instants at which something is observed: page load, the moment a
\* debounce timer set at page load is due, and one hour after page load.
Instants ==
    {StartTime, StartTime + DebounceMs, StartTime + MsPerHour}

(***************************************************************************)
(* The catalog: movie ids, and the JSON bodies the server sends.           *)
(***************************************************************************)
MovieIds == {"101", "202"}

\* A movie as TMDB sends it; release_date is "" when TMDB has no date.
Movie(id, title, popularity, vote_average, release_date, poster_path) ==
    [id |-> id, title |-> title, popularity |-> popularity,
     vote_average |-> vote_average, release_date |-> release_date,
     poster_path |-> poster_path]

M101 == Movie("101", "Batman", 5, 7, "2020-05-01", "/101.jpg")
M202 == Movie("202", "Alien", 9, 7, "2022-03-04", "/202.jpg")
M303 == Movie("303", "Casablanca", 5, 8, "", "/303.jpg")
M404 == Movie("404", "Batman", 7, 6, "2021-01-01", "")

Catalog == {M101, M202, M303, M404}

MovieOf(id) == CHOOSE m \in Catalog : m.id = id

\* A video of a movie's video list.
Video(key, site, type, official) ==
    [key |-> key, site |-> site, type |-> type, official |-> official]

Sites == {"YouTube", "Vimeo"}
VideoTypes == {"Trailer", "Teaser"}

\* The value of a variable that holds no JSON value (undefined).
NoData == [none |-> TRUE]

(***************************************************************************)
(* Strings are sequences of one-character strings where the code looks     *)
(* inside them (the search query); other strings are TLA+ strings.         *)
(***************************************************************************)
IsWhiteSpace(c) == c = " "

RECURSIVE TrimStart(_)
TrimStart(s) ==
    IF s = <<>> THEN s
    ELSE IF IsWhiteSpace(Head(s)) THEN TrimStart(Tail(s)) ELSE s

RECURSIVE TrimEnd(_)
TrimEnd(s) ==
    IF s = <<>> THEN s
    ELSE IF IsWhiteSpace(s[Len(s)]) THEN TrimEnd(SubSeq(s, 1, Len(s) - 1))
    ELSE s

\* String.prototype.trim
Trim(s) == TrimEnd(TrimStart(s))

\* encodeURIComponent on one character: unreserved characters stay,
\* the others are percent-encoded.
EncodeChar(c) ==
    CASE c = " " -> <<"%", "2", "0">>
      [] c = "&" -> <<"%", "2", "6">>
      [] OTHER -> <<c>>

RECURSIVE EncodeURIComponent(_)
EncodeURIComponent(s) ==
    IF s = <<>> THEN <<>>
    ELSE EncodeChar(Head(s)) \o EncodeURIComponent(Tail(s))

(***************************************************************************)
(* App.sortMovies (App.mjs 306-322).                                       *)
(*                                                                         *)
(* A comparator returns a number; what Array.prototype.sort looks at is    *)
(* whether it is negative, zero, positive or NaN.                          *)
(***************************************************************************)
SortKeys == {"popularity.desc", "vote_average.desc", "release_date.desc", "title.asc"}

Sign(n) == IF n < 0 THEN "neg" ELSE IF n > 0 THEN "pos" ELSE "zero"

\* IsNeg that takes a comparator result of zero for negative.
IsNegOrZero(order) == order \in {"neg", "zero"}

IsNeg(order) == order = "neg"
IsNonNeg(order) == order \in {"zero", "pos"}

\* new Date(release_date) as a number of days; nan for an Invalid Date.
DateValue(release_date) ==
    CASE release_date = "2020-05-01" -> [nan |-> FALSE, v |-> 18383]
      [] release_date = "2021-01-01" -> [nan |-> FALSE, v |-> 18628]
      [] release_date = "2022-03-04" -> [nan |-> FALSE, v |-> 19055]
      [] OTHER -> [nan |-> TRUE, v |-> 0]

\* x - y on numbers that may be NaN.
NumSub(x, y) == IF x.nan \/ y.nan THEN "nan" ELSE Sign(x.v - y.v)

\* The collation order of the titles, for String.prototype.localeCompare.
TitleOrder == <<"Alien", "Batman", "Casablanca">>

TitleRank(title) == CHOOSE i \in 1..Len(TitleOrder) : TitleOrder[i] = title

LocaleCompare(s, t) == Sign(TitleRank(s) - TitleRank(t))

\* The comparator of sortMovies for a recognized sort key, applied to (a, b).
CompareMovies(a, b, sortBy) ==
    CASE sortBy = "popularity.desc" -> Sign(b.popularity - a.popularity)
      [] sortBy = "vote_average.desc" -> Sign(b.vote_average - a.vote_average)
      [] sortBy = "release_date.desc" ->
            NumSub(DateValue(b.release_date), DateValue(a.release_date))
      [] sortBy = "title.asc" -> LocaleCompare(a.title, b.title)

(***************************************************************************)
(* Array.prototype.sort is stable; with a comparator that is not           *)
(* consistent (one that returns NaN for some pairs only) the order is      *)
(* implementation-defined.  Two implementations are modelled: the          *)
(* binary-insertion sort V8 applies to short arrays (after its run         *)
(* detection), and a stable merge sort (SpiderMonkey, JavaScriptCore).     *)
(***************************************************************************)
Engines == {"timsort", "mergesort"}

Reverse(a) == [i \in 1..Len(a) |-> a[Len(a) + 1 - i]]

\* V8 CountAndMakeRun: the length of the run that starts the array.
RECURSIVE RunLength(_, _, _, _)
RunLength(a, sortBy, i, desc) ==
    IF i > Len(a) THEN i - 1
    ELSE LET order == CompareMovies(a[i], a[i - 1], sortBy)
         IN IF desc
              THEN IF IsNonNeg(order) THEN i - 1
                   ELSE RunLength(a, sortBy, i + 1, desc)
              ELSE IF IsNeg(order) THEN i - 1
                   ELSE RunLength(a, sortBy, i + 1, desc)

\* V8 BinaryInsertionSort: where the pivot goes among a[left..right-1].
RECURSIVE BinarySearch(_, _, _, _, _)
BinarySearch(a, sortBy, pivot, left, right) ==
    IF left >= right THEN left
    ELSE LET mid == left + ((right - left) \div 2)
         IN IF IsNeg(CompareMovies(pivot, a[mid], sortBy))
              THEN BinarySearch(a, sortBy, pivot, left, mid)
              ELSE BinarySearch(a, sortBy, pivot, mid + 1, right)

InsertAt(a, pos, x) == SubSeq(a, 1, pos - 1) \o <<x>> \o SubSeq(a, pos, Len(a))

RECURSIVE BinaryInsertion(_, _, _)
BinaryInsertion(a, sortBy, start) ==
    IF start > Len(a) THEN a
    ELSE LET pos == BinarySearch(a, sortBy, a[start], 1, start)
             moved == InsertAt(SubSeq(a, 1, start - 1), pos, a[start])
                          \o SubSeq(a, start + 1, Len(a))
         IN BinaryInsertion(moved, sortBy, start + 1)

TimSort(a, sortBy) ==
    IF Len(a) < 2 THEN a
    ELSE LET desc == IsNeg(CompareMovies(a[2], a[1], sortBy))
             run == RunLength(a, sortBy, 3, desc)
             made == IF desc
                       THEN Reverse(SubSeq(a, 1, run)) \o SubSeq(a, run + 1, Len(a))
                       ELSE a
         IN BinaryInsertion(made, sortBy, run + 1)

RECURSIVE Merge(_, _, _)
Merge(l, r, sortBy) ==
    IF l = <<>> THEN r
    ELSE IF r = <<>> THEN l
    ELSE IF IsNeg(CompareMovies(Head(r), Head(l), sortBy))
      THEN <<Head(r)>> \o Merge(l, Tail(r), sortBy)
      ELSE <<Head(l)>> \o Merge(Tail(l), r, sortBy)

RECURSIVE MergeSort(_, _)
MergeSort(a, sortBy) ==
    IF Len(a) < 2 THEN a
    ELSE LET m == Len(a) \div 2
         IN Merge(MergeSort(SubSeq(a, 1, m), sortBy),
                  MergeSort(SubSeq(a, m + 1, Len(a)), sortBy), sortBy)

\* movies.sort(comparator) in the engine the page runs in.
ArraySort(engine, a, sortBy) ==
    IF engine = "timsort" THEN TimSort(a, sortBy) ELSE MergeSort(a, sortBy)

\* sortMovies(movies, sortBy): the array it returns.  For a recognized key
\* that array is the argument itself, sorted in place.
sortMovies(engine, movies, sortBy) ==
    IF sortBy \in SortKeys THEN ArraySort(engine, movies, sortBy) ELSE movies

\* What sortMovies leaves in the array it was given.
sortMoviesArgument(engine, movies, sortBy) ==
    IF sortBy \in SortKeys THEN ArraySort(engine, movies, sortBy) ELSE movies

(***************************************************************************)
(* localStorage.  An item is the string stored under a key; `text` says    *)
(* what kind of text it is:                                                *)
(*   "none"      no item: getItem returns null                             *)
(*   "empty"     the empty string                                          *)
(*   "envelope"  JSON.stringify({data, timestamp})                         *)
(*   "array"     JSON.stringify of an array of ids (the favorites)         *)
(*   "object"    the JSON text {} : an object with no timestamp            *)
(*   "null"      the JSON text null                                        *)
(*   "garbage"   text that is not JSON                                     *)
(***************************************************************************)
Item(text, data, timestamp, ids) ==
    [text |-> text, data |-> data, timestamp |-> timestamp, ids |-> ids]

NoItem == Item("none", NoData, 0, <<>>)
EmptyItem == Item("empty", NoData, 0, <<>>)
ObjectItem == Item("object", NoData, 0, <<>>)
NullItem == Item("null", NoData, 0, <<>>)
GarbageItem == Item("garbage", NoData, 0, <<>>)

\* JSON.stringify({ data, timestamp })
StringifyEnvelope(data, timestamp) == Item("envelope", data, timestamp, <<>>)

\* JSON.stringify(Array.from(set))
StringifyArray(ids) == Item("array", NoData, 0, ids)

\* if (string): null and "" are falsy.
Truthy(item) == item.text \notin {"none", "empty"}

\* JSON.parse(string) throws a SyntaxError on text that is not JSON.
ParseThrows(item) == item.text \in {"garbage", "empty"}

\* value.timestamp throws a TypeError when value is null; it is undefined
\* when value has no such property.
TimestampThrows(item) == item.text = "null"
HasTimestamp(item) == item.text = "envelope"

\* Items that are not an envelope written by fetchWithCache.
CorruptItems == {EmptyItem, ObjectItem, NullItem, GarbageItem}

(***************************************************************************)
(* Api.mjs (src/unnamed/part_001).                                         *)
(***************************************************************************)
MovieKey(movieId) == "tmdb_movie_" \o movieId
VideosKey(movieId) == "tmdb_movie_" \o movieId \o "_videos"

CacheKeys ==
    {"tmdb_genres", "tmdb_trending"}
        \cup {MovieKey(id) : id \in MovieIds} \cup {VideosKey(id) : id \in MovieIds}

Url(path, params) == [path |-> path, params |-> params]

\* CacheLookup with the duration taken for minutes instead of hours.
CacheLookupMinutes(store, cacheKey, cacheDurationInHours, t) ==
    LET cacheDuration == cacheDurationInHours * 60 * 1000
        cachedItemString == store[cacheKey]
        miss == [hit |-> FALSE, data |-> NoData, store |-> store, error |-> ""]
    IN IF ~Truthy(cachedItemString) THEN miss
       ELSE IF ParseThrows(cachedItemString) \/ TimestampThrows(cachedItemString)
         THEN miss
       ELSE IF HasTimestamp(cachedItemString)
                 /\ t - cachedItemString.timestamp < cacheDuration
         THEN [hit |-> TRUE, data |-> cachedItemString.data, store |-> store,
               error |-> ""]
       ELSE [miss EXCEPT !.store = [store EXCEPT ![cacheKey] = NoItem]]

\* CacheLookup with an entry exactly as old as its window still fresh.
CacheLookupInclusive(store, cacheKey, cacheDurationInHours, t) ==
    LET cacheDuration == cacheDurationInHours * 60 * 60 * 1000
        cachedItemString == store[cacheKey]
        miss == [hit |-> FALSE, data |-> NoData, store |-> store, error |-> ""]
    IN IF ~Truthy(cachedItemString) THEN miss
       ELSE IF ParseThrows(cachedItemString) \/ TimestampThrows(cachedItemString)
         THEN miss
       ELSE IF HasTimestamp(cachedItemString)
                 /\ t - cachedItemString.timestamp <= cacheDuration
         THEN [hit |-> TRUE, data |-> cachedItemString.data, store |-> store,
               error |-> ""]
       ELSE [miss EXCEPT !.store = [store EXCEPT ![cacheKey] = NoItem]]

\* CacheLookup without the try/catch around JSON.parse.
CacheLookupNoCatch(store, cacheKey, cacheDurationInHours, t) ==
    LET cacheDuration == cacheDurationInHours * 60 * 60 * 1000
        cachedItemString == store[cacheKey]
        miss == [hit |-> FALSE, data |-> NoData, store |-> store, error |-> ""]
    IN IF ~Truthy(cachedItemString) THEN miss
       ELSE IF ParseThrows(cachedItemString) THEN [miss EXCEPT !.error = "SyntaxError"]
       ELSE IF TimestampThrows(cachedItemString) THEN [miss EXCEPT !.error = "TypeError"]
       ELSE IF HasTimestamp(cachedItemString)
                 /\ t - cachedItemString.timestamp < cacheDuration
         THEN [hit |-> TRUE, data |-> cachedItemString.data, store |-> store,
               error |-> ""]
       ELSE [miss EXCEPT !.store = [store EXCEPT ![cacheKey] = NoItem]]

\* What fetchWithCache does before its first await (lines 60-82): whether it
\* returns cached data, what it leaves in the store, and the error that
\* escapes it ("" when none does).
\* fetchWithCache that stamps the entry it returns with the time of the read.
CacheLookupTouches(store, cacheKey, cacheDurationInHours, t) ==
    LET cacheDuration == cacheDurationInHours * 60 * 60 * 1000
        cachedItemString == store[cacheKey]
        miss == [hit |-> FALSE, data |-> NoData, store |-> store, error |-> ""]
    IN IF ~Truthy(cachedItemString) THEN miss
       ELSE IF ParseThrows(cachedItemString) \/ TimestampThrows(cachedItemString)
         THEN miss
       ELSE IF HasTimestamp(cachedItemString)
                 /\ t - cachedItemString.timestamp < cacheDuration
         THEN [hit |-> TRUE, data |-> cachedItemString.data,
               store |-> [store EXCEPT
                            ![cacheKey] = StringifyEnvelope(cachedItemString.data, t)],
               error |-> ""]
       ELSE [miss EXCEPT !.store = [store EXCEPT ![cacheKey] = NoItem]]

CacheLookup(store, cacheKey, cacheDurationInHours, t) ==
    LET cacheDuration == cacheDurationInHours * 60 * 60 * 1000
        cachedItemString == store[cacheKey]
        miss == [hit |-> FALSE, data |-> NoData, store |-> store, error |-> ""]
    IN IF ~Truthy(cachedItemString) THEN miss
       ELSE IF ParseThrows(cachedItemString) \/ TimestampThrows(cachedItemString)
         THEN miss          \* caught: "Error parsing cache, fetching new data"
       ELSE IF HasTimestamp(cachedItemString)
                 /\ t - cachedItemString.timestamp < cacheDuration
         THEN [hit |-> TRUE, data |-> cachedItemString.data, store |-> store,
               error |-> ""]
       ELSE [miss EXCEPT !.store = [store EXCEPT ![cacheKey] = NoItem]]

\* A response of the network: ok (2xx with a JSON body), an HTTP error with
\* or without a status_message in its body, or no response at all (fetch
\* rejects).
Response(kind, status, status_message, body) ==
    [kind |-> kind, status |-> status, status_message |-> status_message,
     body |-> body]

ErrorResponses ==
    {Response("http", 401, "Invalid API key", NoData),
     Response("http", 500, "", NoData),
     Response("neterr", 0, "", NoData)}

HttpErrorMessage(status) == "HTTP error! status: " \o ToString(status)
NetworkErrorMessage == "TypeError: Failed to fetch"

\* How a promise settles: fulfilled with a value, or rejected with an error.
Fulfilled(value) == [ok |-> TRUE, value |-> value, error |-> ""]
Rejected(error) == [ok |-> FALSE, value |-> NoData, error |-> error]

\* fetchWithCache that lets the error of a refused write escape.
CacheCompleteThrows(store, cacheKey, response, t, setItemOk) ==
    IF response.kind = "neterr"
      THEN [settled |-> Rejected(NetworkErrorMessage), store |-> store]
    ELSE IF response.kind # "ok"
      THEN [settled |->
                Rejected(IF response.status_message # ""
                           THEN response.status_message
                           ELSE HttpErrorMessage(response.status)),
            store |-> store]
    ELSE IF setItemOk
      THEN [settled |-> Fulfilled(response.body),
            store |-> [store EXCEPT
                         ![cacheKey] = StringifyEnvelope(response.body, t)]]
    ELSE [settled |-> Rejected("QuotaExceededError"), store |-> store]

\* What fetchWithCache does once the response is there (lines 87-109): how
\* its promise settles and what it leaves in the store.  setItemOk is
\* whether localStorage accepts the write (it throws when the quota is
\* exceeded).
CacheComplete(store, cacheKey, response, t, setItemOk) ==
    IF response.kind = "neterr"
      THEN [settled |-> Rejected(NetworkErrorMessage), store |-> store]
    ELSE IF response.kind # "ok"
      THEN [settled |->
                Rejected(IF response.status_message # ""
                           THEN response.status_message
                           ELSE HttpErrorMessage(response.status)),
            store |-> store]
    ELSE [settled |-> Fulfilled(response.body),
          store |-> IF setItemOk
                      THEN [store EXCEPT
                              ![cacheKey] = StringifyEnvelope(response.body, t)]
                      ELSE store]

\* fetchDirect (lines 189-196) once the response is there.
DirectComplete(response) ==
    IF response.kind = "neterr" THEN Rejected(NetworkErrorMessage)
    ELSE IF response.kind # "ok" THEN Rejected(HttpErrorMessage(response.status))
    ELSE Fulfilled([array |-> response.body.results])

\* The cached endpoints: cache key, freshness in hours and URL.
GenresEndpoint ==
    [fn |-> "fetchGenres", key |-> "tmdb_genres", hours |-> GenresHours,
     url |-> Url(BASE_URL \o "/genre/movie/list", <<<<"api_key", API_KEY>>>>)]

TrendingEndpoint ==
    [fn |-> "fetchTrendingMovies", key |-> "tmdb_trending", hours |-> TrendingHours,
     url |-> Url(BASE_URL \o "/trending/movie/week", <<<<"api_key", API_KEY>>>>)]

MovieEndpoint(movieId) ==
    [fn |-> "fetchMovieById", key |-> MovieKey(movieId), hours |-> MovieHours,
     url |-> Url(BASE_URL \o "/movie/" \o movieId, <<<<"api_key", API_KEY>>>>)]

VideosEndpoint(movieId) ==
    [fn |-> "fetchMovieVideos", key |-> VideosKey(movieId), hours |-> VideosHours,
     url |-> Url(BASE_URL \o "/movie/" \o movieId \o "/videos",
                 <<<<"api_key", API_KEY>>>>)]

CachedEndpoints ==
    {GenresEndpoint, TrendingEndpoint}
        \cup {MovieEndpoint(id) : id \in MovieIds}
        \cup {VideosEndpoint(id) : id \in MovieIds}

EndpointOfKey(cacheKey) == CHOOSE e \in CachedEndpoints : e.key = cacheKey

Min(a, b) == IF a < b THEN a ELSE b

\* What the endpoint function makes of the data fetchWithCache gave it.
EndpointValue(fn, data) ==
    CASE fn = "fetchGenres" -> [array |-> data.genres]
      [] fn = "fetchTrendingMovies" ->
            [array |-> SubSeq(data.results, 1, Min(TrendingTop, Len(data.results)))]
      [] OTHER -> data

EndpointSettled(fn, settled) ==
    IF settled.ok THEN Fulfilled(EndpointValue(fn, settled.value)) ELSE settled

\* The filters of the controller: "" is "no filter".
Filters(genre, year, sort) == [genre |-> genre, year |-> year, sort |-> sort]
NoFilters == Filters("", "", "")

\* DiscoverUrl with the random page whatever the filters are.
DiscoverUrlAlwaysRandom(filters, random) ==
    Url(BASE_URL \o "/discover/movie",
        <<<<"api_key", API_KEY>>, <<"page", ToString(random)>>>>
          \o (IF filters.genre # "" THEN <<<<"with_genres", filters.genre>>>> ELSE <<>>)
          \o (IF filters.year # ""
                THEN <<<<"primary_release_year", filters.year>>>> ELSE <<>>)
          \o (IF filters.sort # "" THEN <<<<"sort_by", filters.sort>>>> ELSE <<>>))

\* fetchDiscoverMovies (lines 160-171): the URL it requests.  random is the
\* value of Math.floor(Math.random() * 10) + 1.
DiscoverUrl(filters, random) ==
    LET page == IF filters.genre = "" /\ filters.year = "" /\ filters.sort = ""
                  THEN random ELSE 1
    IN Url(BASE_URL \o "/discover/movie",
           <<<<"api_key", API_KEY>>, <<"page", ToString(page)>>>>
             \o (IF filters.genre # "" THEN <<<<"with_genres", filters.genre>>>> ELSE <<>>)
             \o (IF filters.year # ""
                   THEN <<<<"primary_release_year", filters.year>>>> ELSE <<>>)
             \o (IF filters.sort # "" THEN <<<<"sort_by", filters.sort>>>> ELSE <<>>))

RECURSIVE Join(_)
Join(chars) == IF chars = <<>> THEN "" ELSE Head(chars) \o Join(Tail(chars))

\* fetchSearchMovies (lines 177-184): the URL it requests.
SearchUrl(query, filters) ==
    Url(BASE_URL \o "/search/movie",
        <<<<"api_key", API_KEY>>, <<"query", Join(EncodeURIComponent(query))>>,
          <<"page", "1">>>>
          \o (IF filters.year # ""
                THEN <<<<"primary_release_year", filters.year>>>> ELSE <<>>))

(***************************************************************************)
(* Favorites.mjs.                                                          *)
(*                                                                         *)
(* A JavaScript Set keeps its elements in insertion order: it is a         *)
(* sequence without repetitions.                                           *)
(***************************************************************************)
SetHas(set, x) == \E i \in 1..Len(set) : set[i] = x
SetAdd(set, x) == IF SetHas(set, x) THEN set ELSE Append(set, x)
SetDelete(set, x) == SelectSeq(set, LAMBDA y : y # x)

RECURSIVE NewSet(_)
NewSet(array) ==
    IF array = <<>> THEN <<>>
    ELSE SetAdd(NewSet(SubSeq(array, 1, Len(array) - 1)), array[Len(array)])

Members(set) == {set[i] : i \in 1..Len(set)}

\* loadFavorites (lines 3-6): the set it returns, or the error it throws.
\* JSON.parse throws on text that is not JSON; new Set(null) is the empty set;
\* new Set(object) throws, an object is not iterable.
loadFavorites(item) ==
    IF ~Truthy(item) THEN [ok |-> TRUE, set |-> <<>>, error |-> ""]
    ELSE IF ParseThrows(item) THEN [ok |-> FALSE, set |-> <<>>, error |-> "SyntaxError"]
    ELSE IF item.text = "null" THEN [ok |-> TRUE, set |-> <<>>, error |-> ""]
    ELSE IF item.text = "array" THEN [ok |-> TRUE, set |-> NewSet(item.ids), error |-> ""]
    ELSE [ok |-> FALSE, set |-> <<>>, error |-> "TypeError"]

QuotaError == "QuotaExceededError"

\* What a function of Favorites.mjs leaves in the store, and the error it
\* throws ("" when it returns).
Stored(item) == [item |-> item, error |-> ""]
Thrown(item, error) == [item |-> item, error |-> error]

\* addFavorite (lines 8-12)
addFavorite(item, movieId, setItemOk) ==
    LET loaded == loadFavorites(item)
    IN IF ~loaded.ok THEN Thrown(item, loaded.error)
       ELSE IF ~setItemOk THEN Thrown(item, QuotaError)
       ELSE Stored(StringifyArray(SetAdd(loaded.set, movieId)))

\* removeFavorite that writes the list back with the id still in it.
removeFavoriteKeeps(item, movieId, setItemOk) ==
    LET loaded == loadFavorites(item)
    IN IF ~loaded.ok THEN Thrown(item, loaded.error)
       ELSE IF ~setItemOk THEN Thrown(item, QuotaError)
       ELSE Stored(StringifyArray(loaded.set))

\* removeFavorite (lines 14-18)
removeFavorite(item, movieId, setItemOk) ==
    LET loaded == loadFavorites(item)
    IN IF ~loaded.ok THEN Thrown(item, loaded.error)
       ELSE IF ~setItemOk THEN Thrown(item, QuotaError)
       ELSE Stored(StringifyArray(SetDelete(loaded.set, movieId)))

(***************************************************************************)
(* Ui.mjs: what the controller puts on the page.                           *)
(***************************************************************************)
\* The content of a container: kind says what it shows, movies is the list
\* that was handed over for display, cards the ids of the cards shown.
Content(kind, message, list, cards) ==
    [kind |-> kind, message |-> message, movies |-> list, cards |-> cards]

Blank == Content("blank", "", <<>>, <<>>)

showLoading(message) == Content("loading", message, <<>>, <<>>)
showError(message) == Content("error", message, <<>>, <<>>)
showNoResults(title) == Content("no-results", title, <<>>, <<>>)

IdsOf(list) == [i \in 1..Len(list) |-> list[i].id]

\* displayMovies (lines 125-132): movies without poster get no card.
displayMovies(list) ==
    LET validMovies == SelectSeq(list, LAMBDA movie : movie.poster_path # "")
    IN IF validMovies = <<>>
         THEN [showNoResults("No movies found") EXCEPT !.movies = list]
         ELSE Content("movies", "", list, IdsOf(validMovies))

\* displayTrendingMovies (lines 140-153)
displayTrendingMovies(list) ==
    IF list = <<>> THEN showError("No trending movies found.")
    ELSE Content("movies", "", list, IdsOf(list))

NoVideo == Video("", "", "", FALSE)

\* The content of the modal: the details and the trailer handed over.
Modal(kind, message, details, trailer) ==
    [kind |-> kind, message |-> message, details |-> details, trailer |-> trailer]

ModalBlank == Modal("blank", "", NoData, NoVideo)

\* updateUIForSearch, updateUIForFavorites (lines 238-251)
updateUIForSearch(d) ==
    [d EXCEPT !.trendingSection = FALSE, !.title = "Search Results", !.clearBtn = TRUE]

updateUIForFavorites(d) ==
    [d EXCEPT !.trendingSection = FALSE, !.title = "My Favorite Movies",
              !.clearBtn = TRUE]

\* updateUIDiscoverTitle (lines 257-267)
updateUIDiscoverTitle(d, hasFilters) ==
    IF hasFilters
      THEN [d EXCEPT !.title = "Filtered Movies", !.trendingSection = FALSE,
                     !.clearBtn = TRUE]
      ELSE [d EXCEPT !.title = "Discover Movies", !.trendingSection = TRUE,
                     !.clearBtn = FALSE]

\* resetUIToDiscover (lines 272-276)
resetUIToDiscover(d) ==
    [d EXCEPT !.trendingSection = TRUE, !.title = "Discover Movies",
              !.clearBtn = FALSE]

\* clearFilters that leaves the text of the search input.
clearFiltersKeepsInput(d) ==
    [d EXCEPT !.genreFilter = "", !.yearFilter = "", !.sortFilter = ""]

\* clearFilters (lines 281-286)
clearFilters(d) ==
    [d EXCEPT !.searchInput = <<>>, !.genreFilter = "", !.yearFilter = "",
              !.sortFilter = ""]

\* toggleClearButton (lines 292-294)
toggleClearButton(d, show) == [d EXCEPT !.clearBtn = show]

\* showMovieDetailsModal, hideMovieDetailsModal (lines 324-337)
showMovieDetailsModal(d) == [d EXCEPT !.modalOverlay = TRUE]

hideMovieDetailsModal(d) ==
    [d EXCEPT !.modalOverlay = FALSE, !.modalContentContainer = ModalBlank]

\* displayMovieDetails (lines 344-387)
displayMovieDetails(d, movie, trailer) ==
    [d EXCEPT !.modalContentContainer = Modal("details", "", movie, trailer)]

\* The page as index.html has it before any script runs.
InitialDom ==
    [searchInput |-> <<>>, genreFilter |-> "", yearFilter |-> "", sortFilter |-> "",
     genreOptions |-> {}, yearOptions |-> {},
     clearBtn |-> FALSE, trendingSection |-> TRUE, title |-> "Discover Movies",
     moviesGrid |-> Blank, trendingCarousel |-> Blank,
     modalOverlay |-> FALSE, modalContentContainer |-> ModalBlank]

(***************************************************************************)
(* The state.                                                              *)
(***************************************************************************)
VARIABLES
    now,        \* Date.now()
    engine,     \* the sort implementation of the browser
    cache,      \* localStorage, the keys of the response cache
    favItem,    \* localStorage["movieFlixFavorites"]
    inflight,   \* the requests fetch() has sent and that have no response yet
    issued,     \* the URLs fetch() was called with in the latest step
    calls,      \* how many calls the caller of Api.mjs has made
    lastCall,   \* the call of an Api.mjs function the latest step made, up to
                \* its first await
    lastDone,   \* the completion of an Api.mjs function in the latest step
    original,   \* sortMovies: the list before the first call
    movies,     \* sortMovies: the array the caller holds
    given,      \* sortMovies: what the array held when the latest call began
    returned,   \* sortMovies: the array the latest call returned
    sortBy,     \* sortMovies: the key of the latest call
    prevKey,    \* sortMovies: the key of the call before it
    sortCalls,  \* sortMovies: how many calls were made
    app,        \* the fields of the App object
    dom,        \* the page
    tasks,      \* the controller's async functions suspended at an await
    lastOp,     \* the event the latest step handled
    intents     \* how many events the user has caused

envVars == <<now, engine, cache, favItem>>
netVars == <<inflight, issued>>
apiVars == <<calls, lastCall, lastDone>>

sortVars == <<original, movies, given, returned, sortBy, prevKey, sortCalls>>

appVars == <<app, dom, tasks, lastOp, intents>>

vars == <<envVars, netVars, apiVars, sortVars, appVars>>

\* No call of sortMovies was made.
SortIdle ==
    /\ original = <<>>
    /\ movies = <<>>
    /\ given = <<>>
    /\ returned = <<>>
    /\ sortBy = ""
    /\ prevKey = ""
    /\ sortCalls = 0

\* A request in flight.  key is "" for fetchDirect; owner is who awaits it
\* (tid 0: the caller of Api.mjs); before and stale say what fetchWithCache
\* found in the store when it was called.
Request(id, fn, key, url, owner, before, stale) ==
    [id |-> id, fn |-> fn, key |-> key, url |-> url, owner |-> owner,
     before |-> before, stale |-> stale]

Owner(tid, slot) == [tid |-> tid, slot |-> slot]

FreeId(requests) ==
    CHOOSE i \in 1..(Cardinality(requests) + 1) :
        /\ \A r \in requests : r.id # i
        /\ \A j \in 1..(i - 1) : \E r \in requests : r.id = j

IsStale(item, hours, t) ==
    HasTimestamp(item) /\ t - item.timestamp >= hours * MsPerHour

NoCall ==
    [fn |-> "", key |-> "", at |-> 0, before |-> NoItem,
     stale |-> FALSE, hit |-> FALSE, data |-> NoData, error |-> "",
     after |-> NoItem, filters |-> NoFilters, query |-> <<>>]

NoDone ==
    [fn |-> "", key |-> "", at |-> 0, before |-> NoItem, stale |-> FALSE,
     response |-> Response("", 0, "", NoData), setItemOk |-> FALSE,
     settled |-> Rejected(""), after |-> NoItem]

(***************************************************************************)
(* App.mjs: the controller.                                                *)
(*                                                                         *)
(* A handler runs to completion, microtasks included, before the next      *)
(* event is taken: it runs until it returns or until every async function  *)
(* it started awaits the network.  The handlers are functions of a world   *)
(* w: the stores, the requests in flight, the controller's fields, the     *)
(* page, and the async functions suspended at an await (the tasks).        *)
(* w.issued lists the URLs requested, w.called the functions entered and   *)
(* w.thrown the error that left the handler uncaught ("" if none).         *)
(***************************************************************************)
\* The fields of App as the constructor sets them (lines 14-26).  started
\* says whether init has registered the listeners; searchTimeout is the time
\* at which the pending debounce timer is due, 0 when none is pending.
NewApp ==
    [started |-> FALSE, genresMap |-> {}, favoritesSet |-> <<>>,
     currentFilters |-> NoFilters, searchQuery |-> <<>>,
     currentView |-> "discover", searchTimeout |-> 0]

\* An async function suspended at an await.  values holds, for each promise
\* it awaits, whether it is still pending or what it was fulfilled with.
Task(tid, kind, movieId, values) ==
    [tid |-> tid, kind |-> kind, movieId |-> movieId, values |-> values]

Pending == [state |-> "pending", value |-> NoData]
Got(value) == [state |-> "fulfilled", value |-> value]

\* A task id no task and no request in flight carries.
FreeTid(w) ==
    LET used == {t.tid : t \in w.tasks} \cup {r.owner.tid : r \in w.inflight}
    IN CHOOSE i \in 1..(Cardinality(used) + 1) :
           i \notin used /\ \A j \in 1..(i - 1) : j \in used

Called(w, name) == [w EXCEPT !.called = Append(@, name)]

\* fetch(url): the request leaves.
Send(w, fn, key, url, owner, before, stale) ==
    [w EXCEPT !.inflight = @ \cup {Request(FreeId(@), fn, key, url, owner, before, stale)},
              !.issued = Append(@, url)]

\* fetchWithCache up to the network (lines 59-85): a hit returns the data,
\* otherwise the request is sent on behalf of owner.
fetchWithCache(w0, e, owner) ==
    LET w == Called(w0, e.fn)
        r == CacheLookup(w.cache, e.key, e.hours, now)
        w1 == [w EXCEPT !.cache = r.store]
    IN IF r.hit
         THEN [hit |-> TRUE, value |-> EndpointValue(e.fn, r.data), w |-> w1]
         ELSE [hit |-> FALSE, value |-> NoData,
               w |-> Send(w1, e.fn, e.key, e.url, owner, w.cache[e.key],
                          IsStale(w.cache[e.key], e.hours, now))]

\* loadDiscoverMovies up to its await (lines 195-199)
loadDiscoverMovies(w0, random) ==
    LET w == Called(w0, "loadDiscoverMovies")
        tid == FreeTid(w)
        w1 == [w EXCEPT !.app.currentView = "discover",
                        !.dom.moviesGrid = showLoading("Loading movies...")]
        w2 == Send(w1, "fetchDiscoverMovies", "",
                   DiscoverUrl(w1.app.currentFilters, random), Owner(tid, 1),
                   NoItem, FALSE)
    IN [w2 EXCEPT !.tasks = @ \cup {Task(tid, "loadDiscoverMovies", "", <<Pending>>)}]

\* loadDiscoverMovies after its await (lines 200-209)
loadDiscoverMoviesResumes(w, settled) ==
    IF settled.ok
      THEN [w EXCEPT !.dom.moviesGrid = displayMovies(settled.value.array)]
      ELSE [w EXCEPT !.dom.moviesGrid = showError("Failed to load movies")]

\* clearAllFilters that leaves the page alone when nothing is set.
clearAllFiltersWhenSet(w0, random) ==
    LET w == Called(w0, "clearAllFilters")
        w1 == [w EXCEPT !.app.searchQuery = <<>>,
                        !.app.currentFilters = NoFilters,
                        !.app.currentView = "discover",
                        !.dom = resetUIToDiscover(clearFilters(@))]
    IN IF /\ w0.app.searchQuery = <<>>
          /\ w0.app.currentFilters = NoFilters
          /\ w0.app.currentView = "discover"
         THEN w
         ELSE loadDiscoverMovies(w1, random)

\* clearAllFilters (lines 289-298)
clearAllFilters(w0, random) ==
    LET w == Called(w0, "clearAllFilters")
        w1 == [w EXCEPT !.app.searchQuery = <<>>,
                        !.app.currentFilters = NoFilters,
                        !.app.currentView = "discover",
                        !.dom = resetUIToDiscover(clearFilters(@))]
    IN loadDiscoverMovies(w1, random)

\* handleSearch that, for an empty query, reloads the discover list and
\* leaves the filters as they are.
handleSearchEmptyReloads(w0, query, random) ==
    LET w == Called(w0, "handleSearch")
        w1 == [w EXCEPT !.app.searchQuery = Trim(query)]
        tid == FreeTid(w)
        w2 == [w1 EXCEPT !.app.currentView = "search",
                         !.dom = [updateUIForSearch(@) EXCEPT
                                    !.moviesGrid = showLoading("Searching...")]]
        w3 == Send(w2, "fetchSearchMovies", "",
                   SearchUrl(w2.app.searchQuery, w2.app.currentFilters),
                   Owner(tid, 1), NoItem, FALSE)
    IN IF w1.app.searchQuery = <<>> THEN loadDiscoverMovies(w1, random)
       ELSE [w3 EXCEPT !.tasks = @ \cup {Task(tid, "handleSearch", "", <<Pending>>)}]

\* handleSearch up to its await (lines 216-236)
handleSearch(w0, query, random) ==
    LET w == Called(w0, "handleSearch")
        w1 == [w EXCEPT !.app.searchQuery = Trim(query)]
        tid == FreeTid(w)
        w2 == [w1 EXCEPT !.app.currentView = "search",
                         !.dom = [updateUIForSearch(@) EXCEPT
                                    !.moviesGrid = showLoading("Searching...")]]
        w3 == Send(w2, "fetchSearchMovies", "",
                   SearchUrl(w2.app.searchQuery, w2.app.currentFilters),
                   Owner(tid, 1), NoItem, FALSE)
    IN IF w1.app.searchQuery = <<>> THEN clearAllFilters(w1, random)
       ELSE [w3 EXCEPT !.tasks = @ \cup {Task(tid, "handleSearch", "", <<Pending>>)}]

\* handleSearch that drops a response the user no longer waits for.
handleSearchResumesIfCurrent(w, settled) ==
    IF w.app.currentView # "search" THEN w
    ELSE IF settled.ok
      THEN LET sortedMovies ==
                   sortMovies(engine, settled.value.array, w.app.currentFilters.sort)
           IN [w EXCEPT !.dom.moviesGrid = displayMovies(sortedMovies)]
      ELSE [w EXCEPT !.dom.moviesGrid = showError("Search failed. Please try again.")]

\* handleSearch after its await (lines 238-255)
handleSearchResumes(w, settled) ==
    IF settled.ok
      THEN LET sortedMovies ==
                   sortMovies(engine, settled.value.array, w.app.currentFilters.sort)
           IN [w EXCEPT !.dom.moviesGrid = displayMovies(sortedMovies)]
      ELSE [w EXCEPT !.dom.moviesGrid = showError("Search failed. Please try again.")]

\* handleFilterChange that always reloads the discover list.
handleFilterChangeDiscovers(w0, random) ==
    LET w == Called(w0, "handleFilterChange")
        w1 == [w EXCEPT !.app.currentFilters =
                            Filters(w.dom.genreFilter, w.dom.yearFilter,
                                    w.dom.sortFilter)]
        hasFilters ==
            \/ w1.app.currentFilters.genre # ""
            \/ w1.app.currentFilters.year # ""
            \/ w1.app.currentFilters.sort # ""
            \/ w1.app.searchQuery # <<>>
        w2 == [w1 EXCEPT !.dom = toggleClearButton(@, hasFilters)]
    IN loadDiscoverMovies(
           [w2 EXCEPT !.app.currentView = "discover",
                      !.dom = updateUIDiscoverTitle(@, hasFilters)],
           random)

\* handleFilterChange (lines 261-284)
handleFilterChange(w0, random) ==
    LET w == Called(w0, "handleFilterChange")
        w1 == [w EXCEPT !.app.currentFilters =
                            Filters(w.dom.genreFilter, w.dom.yearFilter,
                                    w.dom.sortFilter)]
        hasFilters ==
            \/ w1.app.currentFilters.genre # ""
            \/ w1.app.currentFilters.year # ""
            \/ w1.app.currentFilters.sort # ""
            \/ w1.app.searchQuery # <<>>
        w2 == [w1 EXCEPT !.dom = toggleClearButton(@, hasFilters)]
    IN IF w2.app.searchQuery # <<>>
         THEN handleSearch([w2 EXCEPT !.app.currentView = "search"],
                           w2.app.searchQuery, random)
         ELSE loadDiscoverMovies(
                  [w2 EXCEPT !.app.currentView = "discover",
                             !.dom = updateUIDiscoverTitle(@, hasFilters)],
                  random)

\* The calls of Promise.all's argument, made one after the other: the world
\* after the first k of them, and what each promise holds.
RECURSIVE FetchAll(_, _, _, _)
FetchAll(w, endpoints, tid, k) ==
    IF k = 0 THEN [w |-> w, values |-> <<>>]
    ELSE LET prev == FetchAll(w, endpoints, tid, k - 1)
             f == fetchWithCache(prev.w, endpoints[k], Owner(tid, k))
         IN [w |-> f.w,
             values |-> Append(prev.values,
                               IF f.hit THEN Got(f.value) ELSE Pending)]

AllFulfilled(values) == \A i \in 1..Len(values) : values[i].state = "fulfilled"
ValuesOf(values) == [i \in 1..Len(values) |-> values[i].value]

\* showFavorites after Promise.all is fulfilled (lines 370-380)
showFavoritesResumes(w, favoriteMovies) ==
    LET sortedMovies == sortMovies(engine, favoriteMovies, w.app.currentFilters.sort)
    IN [w EXCEPT !.dom.moviesGrid = displayMovies(sortedMovies)]

\* showFavorites with every movie that could be fetched displayed, the
\* failed ones left out.
showFavoritesSettlesPartial(w, task, slot, settled) ==
    LET values == [task.values EXCEPT
                      ![slot] = IF settled.ok THEN Got(settled.value)
                                ELSE [state |-> "rejected", value |-> NoData]]
        done == \A i \in 1..Len(values) : values[i].state # "pending"
        favoriteMovies ==
            ValuesOf(SelectSeq(values, LAMBDA v : v.state = "fulfilled"))
    IN IF done
         THEN [w EXCEPT !.dom.moviesGrid =
                   displayMovies(sortMovies(engine, favoriteMovies,
                                            w.app.currentFilters.sort))]
         ELSE [w EXCEPT !.tasks = @ \cup {[task EXCEPT !.values = values]}]

\* One promise of showFavorites' Promise.all settles (lines 368-387): the
\* first rejection rejects the whole, the last fulfilment fulfils it.
showFavoritesSettles(w, task, slot, settled) ==
    LET values == [task.values EXCEPT ![slot] = Got(settled.value)]
    IN IF ~settled.ok
         THEN [w EXCEPT !.dom.moviesGrid = showError("Could not load your favorites.")]
       ELSE IF AllFulfilled(values) THEN showFavoritesResumes(w, ValuesOf(values))
       ELSE [w EXCEPT !.tasks = @ \cup {[task EXCEPT !.values = values]}]

\* showFavorites without the test for an empty set.
showFavoritesAlwaysFetches(w0) ==
    LET w == Called(w0, "showFavorites")
        w1 == [w EXCEPT !.app.currentView = "favorites",
                        !.dom = [updateUIForFavorites(@) EXCEPT
                                   !.moviesGrid =
                                       showLoading("Loading your favorite movies...")]]
        ids == w1.app.favoritesSet
        tid == FreeTid(w)
        all == FetchAll(w1, [i \in 1..Len(ids) |-> MovieEndpoint(ids[i])], tid,
                        Len(ids))
    IN IF AllFulfilled(all.values)
         THEN showFavoritesResumes(all.w, ValuesOf(all.values))
       ELSE [all.w EXCEPT !.tasks = @ \cup {Task(tid, "showFavorites", "", all.values)}]

\* showFavorites up to its await (lines 347-368)
showFavorites(w0) ==
    LET w == Called(w0, "showFavorites")
        w1 == [w EXCEPT !.app.currentView = "favorites",
                        !.dom = [updateUIForFavorites(@) EXCEPT
                                   !.moviesGrid =
                                       showLoading("Loading your favorite movies...")]]
        ids == w1.app.favoritesSet
        tid == FreeTid(w)
        all == FetchAll(w1, [i \in 1..Len(ids) |-> MovieEndpoint(ids[i])], tid,
                        Len(ids))
    IN IF ids = <<>>
         THEN [w1 EXCEPT !.dom.moviesGrid = showNoResults("You have no favorites yet")]
       ELSE IF AllFulfilled(all.values)
         THEN showFavoritesResumes(all.w, ValuesOf(all.values))
       ELSE [all.w EXCEPT !.tasks = @ \cup {Task(tid, "showFavorites", "", all.values)}]

\* toggleFavorite that changes the in-memory set before it writes the store.
toggleFavoriteMemoryFirst(w0, movieId, setItemOk) ==
    LET w == Called(w0, "toggleFavorite")
        has == SetHas(w.app.favoritesSet, movieId)
        r == IF has THEN removeFavorite(w.favItem, movieId, setItemOk)
             ELSE addFavorite(w.favItem, movieId, setItemOk)
        w1 == [w EXCEPT !.favItem = r.item,
                        !.app.favoritesSet =
                            IF has THEN SetDelete(@, movieId) ELSE SetAdd(@, movieId)]
    IN IF r.error # "" THEN [w1 EXCEPT !.thrown = r.error]
       ELSE IF w1.app.currentView = "favorites" THEN showFavorites(w1)
       ELSE w1

\* toggleFavorite (lines 328-342).  An error thrown by Favorites.mjs leaves
\* the function at once: nothing after the throwing call runs.
toggleFavorite(w0, movieId, setItemOk) ==
    LET w == Called(w0, "toggleFavorite")
        has == SetHas(w.app.favoritesSet, movieId)
        r == IF has THEN removeFavorite(w.favItem, movieId, setItemOk)
             ELSE addFavorite(w.favItem, movieId, setItemOk)
        w1 == [w EXCEPT !.favItem = r.item,
                        !.app.favoritesSet =
                            IF has THEN SetDelete(@, movieId) ELSE SetAdd(@, movieId)]
    IN IF r.error # "" THEN [w EXCEPT !.thrown = r.error]
       ELSE IF w1.app.currentView = "favorites" THEN showFavorites(w1)
       ELSE w1

\* Array.prototype.find with the two tests of lines 410-419: the first
\* element that passes, undefined (NoVideo) when none does.
FindOfficialTrailer(results) ==
    LET found == SelectSeq(results,
                           LAMBDA video : /\ video.site = "YouTube"
                                          /\ video.type = "Trailer"
                                          /\ video.official)
    IN IF found = <<>> THEN NoVideo ELSE Head(found)

FindTrailer(results) ==
    LET found == SelectSeq(results,
                           LAMBDA video : /\ video.site = "YouTube"
                                          /\ video.type = "Trailer")
    IN IF found = <<>> THEN NoVideo ELSE Head(found)

\* SelectTrailer with the first YouTube trailer taken whatever its flag.
SelectTrailerFirst(results) == FindTrailer(results)

\* const trailer = find(official) || find(any) || null (lines 409-420)
SelectTrailer(results) ==
    IF FindOfficialTrailer(results) # NoVideo THEN FindOfficialTrailer(results)
    ELSE FindTrailer(results)

\* showMovieDetails after Promise.all is fulfilled (lines 409-422)
showMovieDetailsResumes(w, details, videosResponse) ==
    [w EXCEPT !.dom = displayMovieDetails(@, details,
                                          SelectTrailer(videosResponse.results))]

\* One promise of showMovieDetails' Promise.all settles (lines 403-429)
showMovieDetailsSettles(w, task, slot, settled) ==
    LET values == [task.values EXCEPT ![slot] = Got(settled.value)]
    IN IF ~settled.ok
         THEN [w EXCEPT !.dom.modalContentContainer =
                   Modal("error", "Failed to load movie details.", NoData, NoVideo)]
       ELSE IF AllFulfilled(values)
         THEN showMovieDetailsResumes(w, values[1].value, values[2].value)
       ELSE [w EXCEPT !.tasks = @ \cup {[task EXCEPT !.values = values]}]

\* showMovieDetails up to its await (lines 394-406)
showMovieDetails(w0, movieId) ==
    LET w == Called(w0, "showMovieDetails")
        w1 == [w EXCEPT !.dom =
                   showMovieDetailsModal(
                       [@ EXCEPT !.modalContentContainer =
                            Modal("loading", "Loading movie details...", NoData,
                                  NoVideo)])]
        tid == FreeTid(w)
        all == FetchAll(w1, <<MovieEndpoint(movieId), VideosEndpoint(movieId)>>,
                        tid, 2)
    IN IF AllFulfilled(all.values)
         THEN showMovieDetailsResumes(all.w, all.values[1].value,
                                      all.values[2].value)
         ELSE [all.w EXCEPT
                 !.tasks = @ \cup {Task(tid, "showMovieDetails", movieId, all.values)}]

\* loadTrendingMovies that reports its failure in the movie grid.
loadTrendingMoviesResumesInGrid(w, settled) ==
    IF settled.ok
      THEN [w EXCEPT !.dom.trendingCarousel = displayTrendingMovies(settled.value.array)]
      ELSE [w EXCEPT !.dom.moviesGrid = showError("Failed to load trending movies")]

\* loadTrendingMovies after its await (lines 182-189)
loadTrendingMoviesResumes(w, settled) ==
    IF settled.ok
      THEN [w EXCEPT !.dom.trendingCarousel = displayTrendingMovies(settled.value.array)]
      ELSE [w EXCEPT !.dom.trendingCarousel = showError("Failed to load trending movies")]

\* loadGenres after its await (lines 164-173)
loadGenresResumes(w, settled) ==
    IF settled.ok
      THEN LET genres == settled.value.array
           IN [w EXCEPT !.app.genresMap = {genres[i] : i \in 1..Len(genres)},
                        !.dom.genreOptions =
                            @ \cup {genres[i].id : i \in 1..Len(genres)}]
      ELSE w

\* init from line 47 on: loadTrendingMovies, and loadDiscoverMovies once it
\* is done.
initFromTrending(w0, random) ==
    LET w == Called(w0, "loadTrendingMovies")
        tid == FreeTid(w)
        f == fetchWithCache(w, TrendingEndpoint, Owner(tid, 1))
    IN IF f.hit
         THEN loadDiscoverMovies(loadTrendingMoviesResumes(f.w, Fulfilled(f.value)),
                                 random)
         ELSE [f.w EXCEPT
                 !.tasks = @ \cup {Task(tid, "loadTrendingMovies", "", <<Pending>>)}]

\* init from line 46 on: loadGenres, and the rest once it is done.
initFromGenres(w0, random) ==
    LET w == Called(w0, "loadGenres")
        tid == FreeTid(w)
        f == fetchWithCache(w, GenresEndpoint, Owner(tid, 1))
    IN IF f.hit
         THEN initFromTrending(loadGenresResumes(f.w, Fulfilled(f.value)), random)
         ELSE [f.w EXCEPT !.tasks = @ \cup {Task(tid, "loadGenres", "", <<Pending>>)}]

\* The years setupYearFilter offers (Ui.mjs lines 172-180): 1990 to the
\* current year.
YearOptions == {"2020"}

\* The keys the sort select of index.html offers.
SortOptions == {"popularity.desc", "release_date.desc"}

\* new App(): the constructor and init up to its first await (lines 14-48).
\* loadFavorites is called outside init's try: what it throws rejects init.
init(w0, random) ==
    LET w == Called(w0, "init")
        w1 == [w EXCEPT !.app = [NewApp EXCEPT !.started = TRUE],
                        !.dom.yearOptions = YearOptions]
        loaded == loadFavorites(w.favItem)
        w2 == [w1 EXCEPT !.app.favoritesSet = loaded.set,
                         !.dom.trendingCarousel =
                             showLoading("Loading trending movies..."),
                         !.dom.moviesGrid = showLoading("Loading movies...")]
    IN IF ~loaded.ok THEN [w1 EXCEPT !.thrown = loaded.error]
       ELSE initFromGenres(w2, random)

\* Resume with an init that gives up when the genres cannot be loaded.
ResumeStopsOnGenres(w, task, slot, settled, random) ==
    CASE task.kind = "loadGenres" ->
            IF settled.ok
              THEN initFromTrending(loadGenresResumes(w, settled), random)
              ELSE w
      [] task.kind = "loadTrendingMovies" ->
            loadDiscoverMovies(loadTrendingMoviesResumes(w, settled), random)
      [] task.kind = "loadDiscoverMovies" -> loadDiscoverMoviesResumes(w, settled)
      [] task.kind = "handleSearch" -> handleSearchResumes(w, settled)
      [] task.kind = "showFavorites" -> showFavoritesSettles(w, task, slot, settled)
      [] task.kind = "showMovieDetails" ->
            showMovieDetailsSettles(w, task, slot, settled)

\* The async function that awaited the promise goes on.  w is the world
\* without the task.
Resume(w, task, slot, settled, random) ==
    CASE task.kind = "loadGenres" ->
            initFromTrending(loadGenresResumes(w, settled), random)
      [] task.kind = "loadTrendingMovies" ->
            loadDiscoverMovies(loadTrendingMoviesResumes(w, settled), random)
      [] task.kind = "loadDiscoverMovies" -> loadDiscoverMoviesResumes(w, settled)
      [] task.kind = "handleSearch" -> handleSearchResumes(w, settled)
      [] task.kind = "showFavorites" -> showFavoritesSettles(w, task, slot, settled)
      [] task.kind = "showMovieDetails" ->
            showMovieDetailsSettles(w, task, slot, settled)

(***************************************************************************)
(* The events of the page.  lastOp describes the event handled last: what  *)
(* it was, the state it found, the functions it entered, the error it let  *)
(* escape, and for a response the task that awaited it.                    *)
(***************************************************************************)
NoTask == Task(0, "", "", <<>>)

NoPrev == [op |-> "", id |-> "", thrown |-> "", favoritesSet |-> <<>>,
           favItem |-> NoItem]

NoOp ==
    [op |-> "", id |-> "", text |-> <<>>, called |-> <<>>, thrown |-> "",
     app |-> NewApp, dom |-> InitialDom, favItem |-> NoItem, prev |-> NoPrev,
     fn |-> "", task |-> NoTask, slot |-> 0, settled |-> Rejected("")]

\* The world a handler starts in.
World ==
    [cache |-> cache, favItem |-> favItem, inflight |-> inflight, issued |-> <<>>,
     app |-> app, dom |-> dom, tasks |-> tasks, called |-> <<>>, thrown |-> ""]

\* The event op has been handled and left the world w.
Commit(w, op) ==
    /\ cache' = w.cache
    /\ favItem' = w.favItem
    /\ inflight' = w.inflight
    /\ issued' = w.issued
    /\ app' = w.app
    /\ dom' = w.dom
    /\ tasks' = w.tasks
    /\ lastOp' = [op EXCEPT !.called = w.called, !.thrown = w.thrown, !.app = app,
                           !.dom = dom, !.favItem = favItem]
    /\ UNCHANGED <<now, engine, apiVars, sortVars>>

Intent(name) == [NoOp EXCEPT !.op = name]

\* The user acts on the page, which the listeners of init watch; limit
\* bounds how many events the user causes.
UserActs(limit) ==
    /\ app.started
    /\ intents < limit
    /\ intents' = intents + 1

\* The pages Math.random gives the controller.
Pages == {1, MaxPage}

\* DOMContentLoaded (main.js): new App().
AppStart ==
    /\ ~app.started
    /\ \E random \in Pages : Commit(init(World, random), Intent("init"))
    /\ UNCHANGED intents

\* An input listener that leaves a pending timer running instead of
\* restarting it.
SearchInputKeepsTimer(text) ==
    /\ UserActs(MaxIntents)
    /\ text # dom.searchInput
    /\ Commit([World EXCEPT !.dom.searchInput = text,
                            !.app.searchTimeout =
                                IF @ # 0 THEN @ ELSE now + DebounceMs],
              [Intent("input") EXCEPT !.text = text])

\* The user types: the input listener restarts the debounce timer (lines
\* 67-72).
SearchInput(text) ==
    /\ UserActs(MaxIntents)
    /\ text # dom.searchInput
    /\ Commit([World EXCEPT !.dom.searchInput = text,
                            !.app.searchTimeout = now + DebounceMs],
              [Intent("input") EXCEPT !.text = text])

\* The debounce timer is due: handleSearch(e.target.value).
SearchTimerFires ==
    /\ app.searchTimeout # 0
    /\ now >= app.searchTimeout
    /\ \E random \in Pages :
           Commit(handleSearch([World EXCEPT !.app.searchTimeout = 0],
                               dom.searchInput, random),
                  [Intent("handleSearch") EXCEPT !.text = dom.searchInput])
    /\ UNCHANGED intents

\* The user picks another option in one of the three selects.
FilterChange ==
    /\ UserActs(MaxIntents)
    /\ \E select \in {"genreFilter", "yearFilter", "sortFilter"} :
         \E value \in {""} \cup (CASE select = "genreFilter" -> dom.genreOptions
                                  [] select = "yearFilter" -> dom.yearOptions
                                  [] select = "sortFilter" -> SortOptions) :
           /\ value # dom[select]
           /\ \E random \in Pages :
                  Commit(handleFilterChange(
                             [World EXCEPT !.dom = [@ EXCEPT ![select] = value]],
                             random),
                         Intent("handleFilterChange"))

\* The user clicks the logo or the clear button.
ClearClick ==
    /\ UserActs(MaxIntents)
    /\ \E random \in Pages :
           Commit(clearAllFilters(World, random), Intent("clearAllFilters"))

\* The user clicks the favorites button.
FavoritesClick ==
    /\ UserActs(MaxIntents)
    /\ Commit(showFavorites(World), Intent("showFavorites"))

\* The ids of the cards the user can click: those of the grid, and those of
\* the carousel while the trending section is displayed.
CardsShown ==
    {dom.moviesGrid.cards[i] : i \in 1..Len(dom.moviesGrid.cards)}
      \cup (IF dom.trendingSection
              THEN {dom.trendingCarousel.cards[i] :
                        i \in 1..Len(dom.trendingCarousel.cards)}
              ELSE {})

\* The user clicks the favorite button of a card (lines 141-148).
FavoriteClick ==
    /\ UserActs(MaxClicks)
    /\ \E movieId \in CardsShown \cap MovieIds, setItemOk \in BOOLEAN :
           Commit(toggleFavorite(World, movieId, setItemOk),
                  [Intent("toggleFavorite") EXCEPT
                     !.id = movieId,
                     !.prev = [op |-> lastOp.op, id |-> lastOp.id,
                               thrown |-> lastOp.thrown,
                               favoritesSet |-> lastOp.app.favoritesSet,
                               favItem |-> lastOp.favItem]])

\* The user clicks a card, one of those for ids (lines 150-155).
CardClickOf(ids) ==
    /\ UserActs(MaxViews)
    /\ \E movieId \in CardsShown \cap ids :
           Commit(showMovieDetails(World, movieId),
                  [Intent("showMovieDetails") EXCEPT !.id = movieId])

CardClick == CardClickOf(MovieIds)

\* The user closes the modal (lines 107-115).
ModalClose ==
    /\ UserActs(MaxViews)
    /\ dom.modalOverlay
    /\ Commit([World EXCEPT !.dom = hideMovieDetailsModal(@)], Intent("close"))

\* What the promise of the request's Api.mjs function settles with, and
\* what fetchWithCache leaves in the cache.
Completion(w, req, response, setItemOk) ==
    IF req.key # ""
      THEN LET c == CacheComplete(w.cache, req.key, response, now, setItemOk)
           IN [settled |-> EndpointSettled(req.fn, c.settled), store |-> c.store]
      ELSE [settled |-> DirectComplete(response), store |-> w.cache]

\* The task that awaits the request, NoTask when it has ended.
Awaiting(w, req) ==
    IF \E t \in w.tasks : t.tid = req.owner.tid
      THEN CHOOSE t \in w.tasks : t.tid = req.owner.tid
      ELSE NoTask

\* The response to a request of the controller arrives: fetchWithCache or
\* fetchDirect completes, and the task that awaits it, if there still is
\* one, goes on.
Respond(w0, req, response, setItemOk, random) ==
    LET c == Completion(w0, req, response, setItemOk)
        task == Awaiting(w0, req)
        w == [w0 EXCEPT !.cache = c.store, !.inflight = @ \ {req}]
    IN IF task # NoTask
         THEN Resume([w EXCEPT !.tasks = @ \ {task}], task, req.owner.slot,
                     c.settled, random)
         ELSE w

AppResponse(req, response, setItemOk, random) ==
    /\ req.owner.tid # 0
    /\ Commit(Respond(World, req, response, setItemOk, random),
              [Intent("response") EXCEPT
                 !.fn = req.fn, !.task = Awaiting(World, req),
                 !.slot = req.owner.slot,
                 !.settled = Completion(World, req, response, setItemOk).settled])
    /\ UNCHANGED intents

\* The page is not loaded: no controller exists.
AppIdle ==
    /\ app = NewApp
    /\ dom = InitialDom
    /\ tasks = {}
    /\ lastOp = NoOp
    /\ intents = 0

(***************************************************************************)
(* The caller of Api.mjs calls one of the cached endpoint functions.  With *)
(* a fresh entry the call returns the cached data; otherwise it sends the  *)
(* request and awaits the response.                                        *)
(***************************************************************************)
ApiCallCached(e) ==
    /\ calls < MaxCalls
    /\ LET r == CacheLookup(cache, e.key, e.hours, now)
       IN /\ cache' = r.store
          /\ lastCall' =
               [NoCall EXCEPT !.fn = e.fn, !.key = e.key, !.at = now,
                              !.before = cache[e.key],
                              !.stale = IsStale(cache[e.key], e.hours, now),
                              !.hit = r.hit, !.data = r.data, !.error = r.error,
                              !.after = r.store[e.key]]
          /\ IF r.hit \/ r.error # ""
               THEN /\ inflight' = inflight
                    /\ issued' = <<>>
               ELSE /\ inflight' = inflight \cup
                         {Request(FreeId(inflight), e.fn, e.key, e.url, Owner(0, 1),
                                  cache[e.key], IsStale(cache[e.key], e.hours, now))}
                    /\ issued' = <<e.url>>
    /\ calls' = calls + 1
    /\ lastDone' = NoDone
    /\ UNCHANGED <<now, engine, favItem, sortVars, appVars>>

\* The movie ids the caller of Api.mjs asks for.
ApiIds == {"101"}

ApiCallGenres == ApiCallCached(GenresEndpoint)
ApiCallTrending == ApiCallCached(TrendingEndpoint)
ApiCallMovieById == \E id \in ApiIds : ApiCallCached(MovieEndpoint(id))
ApiCallMovieVideos == \E id \in ApiIds : ApiCallCached(VideosEndpoint(id))

\* The JSON bodies the server answers a cached endpoint with.  The server's
\* data changes over time: there are two bodies for each endpoint.
GenreList == <<[id |-> "28", name |-> "Action"]>>

CachedBodies(fn, url) ==
    CASE fn = "fetchGenres" ->
            {[genres |-> GenreList], [genres |-> <<>>]}
      [] fn = "fetchTrendingMovies" ->
            {[results |-> <<M202, M101>>], [results |-> <<M101>>]}
      [] fn = "fetchMovieById" ->
            LET m == CHOOSE c \in Catalog : url.path = BASE_URL \o "/movie/" \o c.id
            IN {m, [m EXCEPT !.popularity = @ + 1]}
      [] fn = "fetchMovieVideos" ->
            {[results |-> <<Video("k1", "YouTube", "Trailer", TRUE)>>],
             [results |-> <<>>]}

OkResponses(bodies) == {Response("ok", 200, "", b) : b \in bodies}

\* The response to a request of the caller of Api.mjs arrives.
ApiResponse(req, response, setItemOk) ==
    /\ req.owner.tid = 0
    /\ req.key # ""
    /\ LET c == CacheComplete(cache, req.key, response, now, setItemOk)
       IN /\ cache' = c.store
          /\ lastDone' =
               [fn |-> req.fn, key |-> req.key, at |-> now, before |-> req.before,
                stale |-> req.stale, response |-> response, setItemOk |-> setItemOk,
                settled |-> c.settled, after |-> c.store[req.key]]
    /\ inflight' = inflight \ {req}
    /\ issued' = <<>>
    /\ lastCall' = NoCall
    /\ UNCHANGED <<now, engine, favItem, calls, sortVars, appVars>>

\* localStorage.setItem is reached only with an ok response.
SetItemOutcomes(response) == IF response.kind = "ok" THEN BOOLEAN ELSE {TRUE}

CacheResponseArrives ==
    \E req \in inflight :
        \E response \in OkResponses(CachedBodies(req.fn, req.url)) \cup ErrorResponses :
            \E setItemOk \in SetItemOutcomes(response) :
                ApiResponse(req, response, setItemOk)

\* Time passes: the clock reaches the next instant.
Tick ==
    /\ \E t \in Instants :
          /\ t > now
          /\ \A u \in Instants : u > now => t <= u
          /\ now' = t
    /\ issued' = <<>>
    /\ lastCall' = NoCall
    /\ lastDone' = NoDone
    /\ lastOp' = NoOp
    /\ UNCHANGED <<engine, cache, favItem, inflight, calls, sortVars>>
    /\ UNCHANGED <<app, dom, tasks, intents>>

(***************************************************************************)
(* SpecCache: the cached endpoints of Api.mjs, called in any order while   *)
(* time passes.  The store starts as an earlier session may have left it:  *)
(* empty, or with one entry that is fresh, stale or corrupted.             *)
(***************************************************************************)
EmptyCache == [k \in CacheKeys |-> NoItem]

EarlierAges == {1, 23 * MsPerHour, 24 * MsPerHour}

EarlierBody(e) == CHOOSE b \in CachedBodies(e.fn, e.url) : TRUE

EarlierItems(e) ==
    {StringifyEnvelope(EarlierBody(e), StartTime - age) : age \in EarlierAges}
      \cup CorruptItems

EarlierCaches ==
    {EmptyCache} \cup
    UNION {{[EmptyCache EXCEPT ![e.key] = item] : item \in EarlierItems(e)} :
              e \in {GenresEndpoint, TrendingEndpoint, MovieEndpoint("101")}}

InitCache ==
    /\ now = StartTime
    /\ engine = "timsort"
    /\ cache \in EarlierCaches
    /\ favItem = NoItem
    /\ inflight = {}
    /\ issued = <<>>
    /\ calls = 0
    /\ lastCall = NoCall
    /\ lastDone = NoDone
    /\ SortIdle
    /\ AppIdle

NextCache ==
    \/ ApiCallGenres
    \/ ApiCallTrending
    \/ ApiCallMovieById
    \/ ApiCallMovieVideos
    \/ CacheResponseArrives
    \/ Tick

SpecCache == InitCache /\ [][NextCache]_vars

(***************************************************************************)
(* Properties of the response cache, under SpecCache.                      *)
(***************************************************************************)
CachedCall == lastCall.fn # ""
CachedDone == lastDone.fn # ""

DurationMs(cacheKey) == EndpointOfKey(cacheKey).hours * MsPerHour

\* The entry a call found is an envelope younger than its freshness window.
FoundFresh ==
    /\ CachedCall
    /\ HasTimestamp(lastCall.before)
    /\ lastCall.at - lastCall.before.timestamp < DurationMs(lastCall.key)

\* C1: a cached fetch that finds an entry fetchWithCache wrote, at a time
\* inside the entry's freshness window (24 h, 1 h for trending), returns exactly
\* the data that was written and sends no request.
C1_FreshEntryIsReturned ==
    FoundFresh =>
        /\ lastCall.hit
        /\ lastCall.data = lastCall.before.data
        /\ lastCall.error = ""
        /\ issued = <<>>
        /\ lastCall.after = lastCall.before

\* C1 witness: an entry written in this session is read later, half a
\* second before its window ends, and is returned.
C1_Witness ==
    /\ FoundFresh
    /\ lastCall.hit
    /\ lastCall.before.timestamp >= StartTime
    /\ lastCall.at - lastCall.before.timestamp = DurationMs(lastCall.key) - DebounceMs

\* The entry a call found is an envelope at or beyond its freshness window.
FoundStale ==
    /\ CachedCall
    /\ HasTimestamp(lastCall.before)
    /\ lastCall.at - lastCall.before.timestamp >= DurationMs(lastCall.key)

\* C2 as stated: once the call that found a stale entry has completed, the
\* entry under the key carries the time of the new write.
C2_Original ==
    (CachedDone /\ lastDone.stale) =>
        /\ HasTimestamp(lastDone.after)
        /\ lastDone.after.timestamp = lastDone.at

\* C2 amended: a cached fetch that finds a stale entry sends exactly one
\* request; if the response is ok and the store accepts the write, the entry
\* under the key then carries the body and the time of the write.
C2_StaleEntryIsRefetched ==
    /\ FoundStale =>
          /\ ~lastCall.hit
          /\ Len(issued) = 1
          /\ issued[1] = EndpointOfKey(lastCall.key).url
    /\ (CachedDone /\ lastDone.stale
          /\ lastDone.response.kind = "ok" /\ lastDone.setItemOk) =>
          /\ lastDone.after = StringifyEnvelope(lastDone.response.body, lastDone.at)
          /\ issued = <<>>

\* C2 witness: a stale entry, exactly as old as its window, was refetched and
\* the new entry is written at a later time.
C2_Witness ==
    /\ CachedDone /\ lastDone.stale
    /\ lastDone.response.kind = "ok" /\ lastDone.setItemOk
    /\ lastDone.before.timestamp < lastDone.at
    /\ lastDone.after.timestamp = lastDone.at

\* What a call that finds no entry does.
MissLookup(cacheKey) ==
    CacheLookup(EmptyCache, cacheKey, EndpointOfKey(cacheKey).hours, lastCall.at)

MissComplete ==
    CacheComplete(EmptyCache, lastDone.key, lastDone.response, lastDone.at,
                  lastDone.setItemOk)

\* C3: a cached fetch that finds a corrupted entry (not JSON, or JSON that is
\* no envelope with a timestamp) does what a cached fetch with no entry does:
\* it sends the request and returns the body, fails only as the request
\* fails, and no error of the corrupted entry reaches the caller.
C3_CorruptEntryIsAMiss ==
    /\ (CachedCall /\ lastCall.before \in CorruptItems) =>
          /\ lastCall.error = ""
          /\ lastCall.hit = MissLookup(lastCall.key).hit
          /\ ~lastCall.hit
          /\ issued = <<EndpointOfKey(lastCall.key).url>>
    /\ (CachedDone /\ lastDone.before \in CorruptItems) =>
          /\ lastDone.settled = MissComplete.settled
          /\ lastDone.response.kind = "ok" =>
                lastDone.settled = Fulfilled(lastDone.response.body)
          /\ lastDone.response.kind # "ok" => ~lastDone.settled.ok

\* C3 witness: a call found text that is not JSON and returned the body of
\* the response.
C3_Witness ==
    /\ CachedDone
    /\ lastDone.before = GarbageItem
    /\ lastDone.settled.ok
    /\ lastDone.settled.value = lastDone.response.body

(***************************************************************************)
(* SpecDirect: the endpoints that are not cached, fetchDiscoverMovies and  *)
(* fetchSearchMovies, called in any order with any filters.                *)
(***************************************************************************)
GenreValues == {"", "28"}
YearValues == {"", "2020"}
SortValues == {"", "popularity.desc"}

FilterValues ==
    {Filters(g, y, s) : g \in GenreValues, y \in YearValues, s \in SortValues}

Queries == {<<"a">>, <<"a", " ", "b">>, <<"a", "&">>}

DirectRequest(fn, url) ==
    Request(FreeId(inflight), fn, "", url, Owner(0, 1), NoItem, FALSE)

ApiCallDiscover ==
    /\ calls < MaxCalls
    /\ \E filters \in FilterValues, random \in 1..MaxPage :
          LET url == DiscoverUrl(filters, random)
          IN /\ inflight' = inflight \cup {DirectRequest("fetchDiscoverMovies", url)}
             /\ issued' = <<url>>
             /\ lastCall' = [NoCall EXCEPT !.fn = "fetchDiscoverMovies", !.at = now,
                                           !.filters = filters]
    /\ calls' = calls + 1
    /\ lastDone' = NoDone
    /\ UNCHANGED <<envVars, sortVars, appVars>>

ApiCallSearch ==
    /\ calls < MaxCalls
    /\ \E query \in Queries, filters \in FilterValues :
          LET url == SearchUrl(query, filters)
          IN /\ inflight' = inflight \cup {DirectRequest("fetchSearchMovies", url)}
             /\ issued' = <<url>>
             /\ lastCall' = [NoCall EXCEPT !.fn = "fetchSearchMovies", !.at = now,
                                           !.filters = filters, !.query = query]
    /\ calls' = calls + 1
    /\ lastDone' = NoDone
    /\ UNCHANGED <<envVars, sortVars, appVars>>

\* The bodies the server answers discover and search requests with.
DirectBodies == {[results |-> <<M101, M202>>], [results |-> <<>>]}

DirectResponseArrives ==
    \E req \in inflight :
        /\ req.owner.tid = 0
        /\ req.key = ""
        /\ \E response \in OkResponses(DirectBodies) \cup ErrorResponses :
              lastDone' =
                [NoDone EXCEPT !.fn = req.fn, !.at = now, !.response = response,
                               !.settled = DirectComplete(response)]
        /\ inflight' = inflight \ {req}
        /\ issued' = <<>>
        /\ lastCall' = NoCall
        /\ UNCHANGED <<envVars, calls, sortVars, appVars>>

InitDirect ==
    /\ now = StartTime
    /\ engine = "timsort"
    /\ cache = EmptyCache
    /\ favItem = NoItem
    /\ inflight = {}
    /\ issued = <<>>
    /\ calls = 0
    /\ lastCall = NoCall
    /\ lastDone = NoDone
    /\ SortIdle
    /\ AppIdle

NextDirect ==
    \/ ApiCallDiscover
    \/ ApiCallSearch
    \/ DirectResponseArrives

SpecDirect == InitDirect /\ [][NextDirect]_vars

\* The parameters of a URL.
ParamNames(url) == [i \in 1..Len(url.params) |-> url.params[i][1]]
HasParam(url, name) == \E i \in 1..Len(url.params) : url.params[i][1] = name
ParamValue(url, name) ==
    url.params[CHOOSE i \in 1..Len(url.params) : url.params[i][1] = name][2]

CarriesExactly(url, name, value) ==
    /\ HasParam(url, name) <=> value # ""
    /\ HasParam(url, name) => ParamValue(url, name) = value
    /\ Cardinality({i \in 1..Len(url.params) : url.params[i][1] = name}) <= 1

DiscoverCall == lastCall.fn = "fetchDiscoverMovies"

\* C7: the discover request depends on the filters only: with genre, year
\* and sort all empty its page is in 1..10 and it carries none of the three
\* filter parameters; with one of them non-empty its page is 1 and it carries
\* exactly with_genres, primary_release_year and sort_by of the non-empty ones.
C7_DiscoverRequest ==
    DiscoverCall =>
        /\ Len(issued) = 1
        /\ issued[1].path = BASE_URL \o "/discover/movie"
        /\ Cardinality({i \in 1..Len(issued[1].params) :
                            issued[1].params[i][1] = "page"}) = 1
        /\ lastCall.filters = NoFilters =>
              /\ ParamValue(issued[1], "page") \in {ToString(p) : p \in 1..10}
              /\ ParamNames(issued[1]) = <<"api_key", "page">>
        /\ lastCall.filters # NoFilters => ParamValue(issued[1], "page") = "1"
        /\ CarriesExactly(issued[1], "with_genres", lastCall.filters.genre)
        /\ CarriesExactly(issued[1], "primary_release_year", lastCall.filters.year)
        /\ CarriesExactly(issued[1], "sort_by", lastCall.filters.sort)
        /\ \A i \in 1..Len(issued[1].params) :
              issued[1].params[i][1] \in
                  {"api_key", "page", "with_genres", "primary_release_year", "sort_by"}

\* C7 witness: a discover call with only the year set asked for page 1 with
\* the year and neither genre nor sort.
C7_Witness ==
    /\ DiscoverCall
    /\ lastCall.filters = Filters("", "2020", "")
    /\ ParamNames(issued[1]) = <<"api_key", "page", "primary_release_year">>
    /\ ParamValue(issued[1], "page") = "1"

(***************************************************************************)
(* SpecSort: sortMovies called on any list of movies with any key, and     *)
(* called again on the array it returned.                                  *)
(***************************************************************************)
\* Sort keys sortMovies does not recognize.
OtherKeys == {"", "revenue.desc"}

RECURSIVE ListsOf(_, _)
ListsOf(S, n) ==
    IF n = 0 THEN {<<>>}
    ELSE LET shorter == ListsOf(S, n - 1)
         IN shorter \cup
            {Append(l, m) : l \in {k \in shorter : Len(k) = n - 1},
                            m \in S}

Distinct(l) == \A i, j \in 1..Len(l) : i # j => l[i] # l[j]

MovieLists == {l \in ListsOf(Catalog, MaxLen) : Distinct(l)}

CallSortMovies ==
    /\ sortCalls < MaxSorts
    /\ \E key \in SortKeys \cup OtherKeys :
          /\ sortBy' = key
          /\ returned' = sortMovies(engine, movies, key)
          /\ movies' = sortMoviesArgument(engine, movies, key)
    /\ given' = movies
    /\ prevKey' = sortBy
    /\ sortCalls' = sortCalls + 1
    /\ UNCHANGED <<original, envVars, netVars, apiVars, appVars>>

InitSort ==
    /\ now = StartTime
    /\ engine \in Engines
    /\ cache = EmptyCache
    /\ favItem = NoItem
    /\ inflight = {}
    /\ issued = <<>>
    /\ calls = 0
    /\ lastCall = NoCall
    /\ lastDone = NoDone
    /\ original \in MovieLists
    /\ movies = original
    /\ given = <<>>
    /\ returned = <<>>
    /\ sortBy = ""
    /\ prevKey = ""
    /\ sortCalls = 0
    /\ AppIdle

NextSort == CallSortMovies

SpecSort == InitSort /\ [][NextSort]_vars

\* C10: sorting by key k a list that is the result of sorting by k returns the
\* same order; with an empty or unrecognized key the returned order is the
\* order of the argument.
C10_SortIdempotent ==
    /\ (sortCalls >= 2 /\ sortBy = prevKey) => returned = given
    /\ (sortCalls >= 1 /\ sortBy \notin SortKeys) => returned = given

\* C10 witness: a list with a movie without release date, whose first sort
\* by release date changed the order, was sorted by release date again.
C10_Witness ==
    /\ sortCalls = 2
    /\ sortBy = "release_date.desc" /\ prevKey = "release_date.desc"
    /\ \E i \in 1..Len(original) : original[i].release_date = ""
    /\ Len(original) = 3
    /\ given # original
    /\ returned = given

\* C11: sortMovies does not mutate its input: after every call the array that
\* was passed in has the element order it had before the call.
C11_InputNotMutated == sortCalls >= 1 => movies = given

\* C11, the case that fails: a call with a recognized key found the array out
\* of order and left the array it was passed in the order it returned.
C11_Witness ==
    /\ sortCalls = 1
    /\ sortBy = "popularity.desc"
    /\ given = <<M101, M202>>
    /\ movies = <<M202, M101>>
    /\ returned = movies

(***************************************************************************)
(* The server's answers to the controller's requests, what the user types, *)
(* and the loaded page: the state once new App() has run and its three     *)
(* startup loads were answered.                                            *)
(***************************************************************************)
\* The JSON bodies the server answers the controller's requests with.  The
\* details of a movie come with or without a poster_path.
AppBodies(req) ==
    CASE req.fn = "fetchGenres" -> {[genres |-> GenreList]}
      [] req.fn = "fetchTrendingMovies" -> {[results |-> <<M202, M101>>]}
      [] req.fn = "fetchMovieById" ->
            LET m == CHOOSE c \in Catalog : req.url.path = BASE_URL \o "/movie/" \o c.id
            IN {m, [m EXCEPT !.poster_path = ""]}
      [] req.fn = "fetchMovieVideos" ->
            {[results |-> <<Video("k1", "YouTube", "Trailer", TRUE)>>]}
      [] req.fn = "fetchDiscoverMovies" -> {[results |-> <<M101, M404, M202>>]}
      [] req.fn = "fetchSearchMovies" ->
            {[results |-> <<M101, M303, M202>>], [results |-> <<>>]}

AppErrors == {Response("http", 500, "", NoData)}

AppResponseArrives ==
    \E req \in inflight :
        \E response \in OkResponses(AppBodies(req)) \cup AppErrors :
            \E setItemOk \in SetItemOutcomes(response), random \in Pages :
                AppResponse(req, response, setItemOk, random)

\* What the user types into the search input.
InputTexts == {<<>>, <<" ">>, <<"a">>, <<" ", "a", "&">>}

SearchInputs == \E text \in InputTexts : SearchInput(text)

\* What an earlier session left under the favorites key.
EarlierFavorites ==
    {NoItem, StringifyArray(<<"101">>), StringifyArray(<<"202", "101">>),
     NullItem, GarbageItem}

\* The world when index.html is loaded and no script has run.
PageLoad(item) ==
    [cache |-> EmptyCache, favItem |-> item, inflight |-> {}, issued |-> <<>>,
     app |-> NewApp, dom |-> InitialDom, tasks |-> {}, called |-> <<>>,
     thrown |-> ""]

\* The world after the next n requests were answered with an ok response.
RECURSIVE Answered(_, _)
Answered(w, n) ==
    IF n = 0 \/ w.inflight = {} THEN w
    ELSE LET req == CHOOSE r \in w.inflight : TRUE
             body == CHOOSE b \in AppBodies(req) : TRUE
         IN Answered(Respond(w, req, Response("ok", 200, "", body), TRUE, 1), n - 1)

\* The world once new App() has run and its three loads were answered.
Loaded(item) == Answered(init(PageLoad(item), 1), 3)

\* The page has loaded in a session that found item under the favorites key.
InitLoaded(item) ==
    /\ now = StartTime
    /\ engine \in Engines
    /\ cache = Loaded(item).cache
    /\ favItem = item
    /\ inflight = {}
    /\ issued = <<>>
    /\ calls = 0
    /\ lastCall = NoCall
    /\ lastDone = NoDone
    /\ SortIdle
    /\ app = Loaded(item).app
    /\ dom = Loaded(item).dom
    /\ tasks = {}
    /\ lastOp = NoOp
    /\ intents = 0

(***************************************************************************)
(* SpecFavorites: the user clicks favorite buttons, the favorites button   *)
(* and the clear button of the loaded page.                                *)
(***************************************************************************)
InitFavorites == \E item \in EarlierFavorites : InitLoaded(item)

NextFavorites ==
    \/ FavoriteClick
    \/ FavoritesClick
    \/ ClearClick
    \/ AppResponseArrives

SpecFavorites == InitFavorites /\ [][NextFavorites]_vars

(***************************************************************************)
(* SpecBrowse: the user types, picks filters, clicks the clear button and  *)
(* the favorites button of the loaded page, while time passes.             *)
(***************************************************************************)
InitBrowse == InitLoaded(NoItem)

NextBrowse ==
    \/ SearchInputs
    \/ SearchTimerFires
    \/ FilterChange
    \/ ClearClick
    \/ FavoritesClick
    \/ AppResponseArrives
    \/ Tick

SpecBrowse == InitBrowse /\ [][NextBrowse]_vars

(***************************************************************************)
(* Properties of the favorites, under SpecFavorites.                       *)
(***************************************************************************)
\* The ids of the list persisted under the favorites key.
PersistedIds(item) == Members(loadFavorites(item).set)

\* The latest two events were toggleFavorite(id) for the same id.
ToggledTwice ==
    /\ lastOp.op = "toggleFavorite"
    /\ lastOp.prev.op = "toggleFavorite"
    /\ lastOp.prev.id = lastOp.id

SameMembership ==
    /\ Members(app.favoritesSet) = Members(lastOp.prev.favoritesSet)
    /\ PersistedIds(favItem) = PersistedIds(lastOp.prev.favItem)

FavoritesSettled == lastOp.op = "response" /\ lastOp.task.kind = "showFavorites"

OthersFulfilled ==
    \A i \in 1..Len(lastOp.task.values) :
        i # lastOp.slot => lastOp.task.values[i].state = "fulfilled"

\* C6: with two or more favorites, when one detail fetch fails the grid shows
\* the error and no movie, also if other fetches succeeded before or succeed
\* later; the step that puts the favorites into the grid is the one in which
\* the last detail fetch succeeds, and it hands over one movie per favorite.
C6_AllOrNothing ==
    /\ (FavoritesSettled /\ Len(lastOp.task.values) >= 2) =>
          /\ ~lastOp.settled.ok =>
                /\ dom.moviesGrid = showError("Could not load your favorites.")
                /\ \A t \in tasks : t.tid # lastOp.task.tid
          /\ (lastOp.settled.ok /\ ~OthersFulfilled) =>
                dom.moviesGrid = lastOp.dom.moviesGrid
          /\ dom.moviesGrid # lastOp.dom.moviesGrid /\ lastOp.settled.ok =>
                /\ OthersFulfilled
                /\ Len(dom.moviesGrid.movies) = Len(lastOp.task.values)
                /\ Members(IdsOf(dom.moviesGrid.movies)) =
                       {lastOp.settled.value.id} \cup
                       {lastOp.task.values[i].value.id :
                            i \in 1..Len(lastOp.task.values) \ {lastOp.slot}}
    /\ (lastOp.op = "response" /\ lastOp.fn = "fetchMovieById"
          /\ lastOp.task = NoTask) => dom = lastOp.dom

C6_Witness ==
    /\ FavoritesSettled
    /\ Len(lastOp.task.values) = 2
    /\ lastOp.slot = 2
    /\ lastOp.task.values[1].state = "fulfilled"
    /\ ~lastOp.settled.ok
    /\ dom.moviesGrid = showError("Could not load your favorites.")
    /\ dom.moviesGrid.cards = <<>>

(***************************************************************************)
(* Properties of clearing and searching, under SpecBrowse.                 *)
(***************************************************************************)
Entered(name) == SetHas(lastOp.called, name)

DiscoverPath == BASE_URL \o "/discover/movie"
SearchPath == BASE_URL \o "/search/movie"

\* C5: clear-all, whatever the state it finds, leaves the search query
\* empty, the three filters empty and the view discover, and sends one
\* discover request.
C5_ClearAllResets ==
    Entered("clearAllFilters") =>
        /\ app.searchQuery = <<>>
        /\ app.currentFilters = NoFilters
        /\ app.currentView = "discover"
        /\ Len(issued) = 1
        /\ issued[1].path = DiscoverPath
        /\ \E r \in inflight :
              /\ r.fn = "fetchDiscoverMovies"
              /\ r.url = issued[1]
              /\ \E t \in tasks : t.tid = r.owner.tid /\ t.kind = "loadDiscoverMovies"

C5_Witness ==
    /\ lastOp.op = "clearAllFilters"
    /\ lastOp.app.searchQuery = <<>>
    /\ lastOp.app.currentFilters = NoFilters
    /\ lastOp.app.currentView = "discover"
    /\ lastOp.dom.moviesGrid.kind = "movies"
    /\ Len(issued) = 1
    /\ issued[1].path = DiscoverPath

\* A search with a query that is not empty once trimmed.
SearchIntent == Entered("handleSearch") /\ ~Entered("clearAllFilters")

\* The search response arrived while handleSearch awaited it.
SearchSettled ==
    /\ lastOp.op = "response"
    /\ lastOp.task.kind = "handleSearch"
    /\ lastOp.settled.ok

\* What it is for two movies to be in the order of a sort key.  A movie
\* without release date counts as released at the epoch.
EpochDays(release_date) ==
    IF DateValue(release_date).nan THEN 0 ELSE DateValue(release_date).v

InOrder(a, b, key) ==
    CASE key = "popularity.desc" -> a.popularity >= b.popularity
      [] key = "vote_average.desc" -> a.vote_average >= b.vote_average
      [] key = "release_date.desc" ->
            EpochDays(a.release_date) >= EpochDays(b.release_date)
      [] key = "title.asc" -> TitleRank(a.title) <= TitleRank(b.title)

OrderedBy(list, key) ==
    \A i, j \in 1..Len(list) : i < j => InOrder(list[i], list[j], key)

IsPermutation(l, m) ==
    /\ Len(l) = Len(m)
    /\ \A x \in Members(l) \cup Members(m) :
          Cardinality({i \in 1..Len(l) : l[i] = x})
              = Cardinality({i \in 1..Len(m) : m[i] = x})

\* C8a: a search with a non-empty query sends one request, to the search
\* endpoint, with the encoded query, page 1, the year filter if it is set,
\* and neither the genre nor the sort filter.
C8_SearchRequest ==
    SearchIntent =>
        /\ Len(issued) = 1
        /\ issued[1].path = SearchPath
        /\ app.searchQuery = Trim(app.searchQuery)
        /\ app.searchQuery # <<>>
        /\ CarriesExactly(issued[1], "query",
                          Join(EncodeURIComponent(app.searchQuery)))
        /\ CarriesExactly(issued[1], "page", "1")
        /\ CarriesExactly(issued[1], "primary_release_year", app.currentFilters.year)
        /\ ~HasParam(issued[1], "with_genres")
        /\ ~HasParam(issued[1], "sort_by")

\* C8b: the list handed over for display is the returned list in the order
\* of the sort key that is active, and the returned list as it is when no
\* recognized key is active.
C8_SearchOrder ==
    SearchSettled =>
        /\ IsPermutation(dom.moviesGrid.movies, lastOp.settled.value.array)
        /\ IF app.currentFilters.sort \in SortKeys
             THEN OrderedBy(dom.moviesGrid.movies, app.currentFilters.sort)
             ELSE dom.moviesGrid.movies = lastOp.settled.value.array

\* C8: a non-empty search sends one search request with the encoded query,
\* page 1 and the year filter only, and the list handed over for display is
\* the returned list ordered by the active sort key.
C8_SearchRequestAndOrder == C8_SearchRequest /\ C8_SearchOrder

C8_Witness ==
    /\ SearchSettled
    /\ app.currentFilters.sort = "release_date.desc"
    /\ lastOp.settled.value.array = <<M101, M303, M202>>
    /\ dom.moviesGrid.movies = <<M101, M303, M202>>

(***************************************************************************)
(* SpecDetails: the user opens and closes the details of the movies on the *)
(* loaded page.  The server's video lists hold up to MaxVideos videos,     *)
(* each an official or unofficial YouTube trailer, a trailer on another    *)
(* site or a YouTube teaser.                                               *)
(***************************************************************************)
VideoKinds ==
    {[site |-> "YouTube", type |-> "Trailer", official |-> TRUE],
     [site |-> "YouTube", type |-> "Trailer", official |-> FALSE],
     [site |-> "Vimeo", type |-> "Trailer", official |-> TRUE],
     [site |-> "YouTube", type |-> "Teaser", official |-> TRUE]}

\* The video lists: the key of a video tells its place in the list.
VideoLists ==
    {[i \in 1..Len(kinds) |->
         Video("k" \o ToString(i), kinds[i].site, kinds[i].type, kinds[i].official)] :
       kinds \in ListsOf(VideoKinds, MaxVideos)}

DetailsBodies(req) ==
    IF req.fn = "fetchMovieVideos" THEN {[results |-> l] : l \in VideoLists}
    ELSE AppBodies(req)

DetailsResponseArrives ==
    \E req \in inflight :
        \E response \in OkResponses(DetailsBodies(req)) \cup AppErrors :
            AppResponse(req, response, TRUE, 1)

InitDetails == InitLoaded(NoItem) /\ engine = "timsort"

\* The user looks at one movie.
DetailsCardClick == CardClickOf(ApiIds)

NextDetails ==
    \/ DetailsCardClick
    \/ ModalClose
    \/ DetailsResponseArrives

SpecDetails == InitDetails /\ [][NextDetails]_vars

\* The latest step handed details and a trailer over for display: the
\* response that completed showMovieDetails arrived, or the click found
\* both entries fresh in the cache.
DetailsDisplayed ==
    \/ /\ lastOp.op = "response"
       /\ lastOp.task.kind = "showMovieDetails"
       /\ lastOp.settled.ok
       /\ OthersFulfilled
    \/ /\ lastOp.op = "showMovieDetails"
       /\ dom.modalContentContainer.kind = "details"

\* The video list showMovieDetails got.
VideosGot ==
    IF lastOp.op = "response"
      THEN IF lastOp.slot = 2 THEN lastOp.settled.value.results
           ELSE lastOp.task.values[2].value.results
      ELSE cache[VideosKey(lastOp.id)].data.results

IsYouTubeTrailer(video) == video.site = "YouTube" /\ video.type = "Trailer"

Least(S) == CHOOSE i \in S : \A j \in S : i <= j

\* C9: the trailer displayed is the first official YouTube trailer of the
\* video list if there is one, else the first YouTube trailer, else none.
C9_TrailerPriority ==
    DetailsDisplayed =>
        LET videos == VideosGot
            official == {i \in 1..Len(videos) :
                            IsYouTubeTrailer(videos[i]) /\ videos[i].official}
            any == {i \in 1..Len(videos) : IsYouTubeTrailer(videos[i])}
            trailer == dom.modalContentContainer.trailer
        IN /\ dom.modalContentContainer.kind = "details"
           /\ official # {} => trailer = videos[Least(official)]
           /\ (official = {} /\ any # {}) => trailer = videos[Least(any)]
           /\ any = {} => trailer = NoVideo

C9_Witness ==
    /\ DetailsDisplayed
    /\ Len(VideosGot) = 3
    /\ \A i \in 1..2 : IsYouTubeTrailer(VideosGot[i]) /\ ~VideosGot[i].official
    /\ IsYouTubeTrailer(VideosGot[3]) /\ VideosGot[3].official
    /\ dom.modalContentContainer.trailer = VideosGot[3]

(***************************************************************************)
(* SpecStartup: the page from DOMContentLoaded on.  new App() runs init;   *)
(* its listeners are registered before its first await, so the user can    *)
(* type, pick filters and click the clear and favorites buttons while the  *)
(* three startup loads are still in progress.                              *)
(***************************************************************************)
\* What an earlier session left under the favorites key: nothing, a list,
\* text that is not JSON, or the JSON text of an object.
StartupFavorites ==
    {NoItem, StringifyArray(<<"101">>), GarbageItem,
     Item("object", NoData, 0, <<>>)}

InitStartup ==
    /\ now = StartTime
    /\ engine = "timsort"
    /\ cache = EmptyCache
    /\ favItem \in StartupFavorites
    /\ inflight = {}
    /\ issued = <<>>
    /\ calls = 0
    /\ lastCall = NoCall
    /\ lastDone = NoDone
    /\ SortIdle
    /\ AppIdle

\* The user causes at most MaxStartupIntents events in a startup.
StartupIntent ==
    /\ intents < MaxStartupIntents
    /\ \/ SearchInputs
       \/ FilterChange
       \/ ClearClick
       \/ FavoritesClick

NextStartup ==
    \/ AppStart
    \/ StartupIntent
    \/ SearchTimerFires
    \/ AppResponseArrives
    \/ Tick

SpecStartup == InitStartup /\ [][NextStartup]_vars

(***************************************************************************)
(* Properties of the startup sequence, under SpecStartup.                  *)
(***************************************************************************)
ViewModes == {"discover", "search", "favorites"}

\* The latest step was an event that changed currentView.
ViewChanged == lastOp.op # "" /\ app.currentView # lastOp.app.currentView

\* The latest step was a search intent with a non-empty query: the debounce
\* timer fired, or a filter changed while a search query was active.
NonEmptySearchIntent ==
    /\ lastOp.op \in {"handleSearch", "handleFilterChange"}
    /\ Entered("handleSearch")
    /\ app.searchQuery # <<>>

\* The latest step was a clear-all intent (a click, or an empty search), or a
\* filter-change intent with no active search query.
DiscoverIntent ==
    \/ lastOp.op = "clearAllFilters"
    \/ lastOp.op = "handleSearch" /\ Entered("clearAllFilters")
    \/ lastOp.op = "handleFilterChange" /\ app.searchQuery = <<>>

\* C12: currentView is one of discover, search, favorites, is discover until
\* the controller starts, and changes to search only on a non-empty search
\* intent, to favorites only on a show-favorites intent, to discover only on
\* a clear-all intent or a filter-change intent with no search query; so no
\* startup load moves it back to discover.
C12_ViewModeTransitions ==
    /\ app.currentView \in ViewModes
    /\ ~app.started => app.currentView = "discover"
    /\ ViewChanged =>
          /\ app.currentView = "search" => NonEmptySearchIntent
          /\ app.currentView = "favorites" => lastOp.op = "showFavorites"
          /\ app.currentView = "discover" => DiscoverIntent

\* The same with the responses that resume init left out.
C12_IntentsOnly ==
    (ViewChanged /\ ~(lastOp.op = "response" /\ lastOp.task.kind = "loadTrendingMovies"))
        => /\ app.currentView = "search" => NonEmptySearchIntent
           /\ app.currentView = "favorites" => lastOp.op = "showFavorites"
           /\ app.currentView = "discover" => DiscoverIntent

\* C12, the case that fails: the user asked for the favorites while the
\* trending load of init was in progress; its response arrives, init goes on
\* to loadDiscoverMovies, and currentView is discover again.
C12_Witness ==
    /\ lastOp.op = "response"
    /\ lastOp.task.kind = "loadTrendingMovies"
    /\ lastOp.app.currentView = "favorites"
    /\ app.currentView = "discover"

(***************************************************************************)
(* Properties of the handlers' errors, under SpecFavorites.                *)
(***************************************************************************)
\* The events that run an intent handler, and the responses that resume one.
IntentOps ==
    {"handleSearch", "handleFilterChange", "clearAllFilters", "toggleFavorite",
     "showFavorites", "showMovieDetails", "response"}

\* C13: no error leaves an intent handler uncaught: whatever fails in the
\* network or in the store while a handler runs, the event ends without an
\* uncaught error.
C13_NoUncaughtError == lastOp.op \in IntentOps => lastOp.thrown = ""

\* The same for every handler but toggleFavorite.
C13_OtherHandlersCatch ==
    (lastOp.op \in IntentOps \ {"toggleFavorite"}) => lastOp.thrown = ""

\* C13, the case that fails: the store refused the write of a favorite-toggle
\* and the error left toggleFavorite uncaught.
C13_Witness ==
    /\ lastOp.op = "toggleFavorite"
    /\ lastOp.thrown = QuotaError
    /\ app = lastOp.app
    /\ dom = lastOp.dom

\* C14: after every favorite-toggle, completed or failed, the ids persisted
\* under the favorites key are the ids of the in-memory set; a toggle that
\* failed on the store changed neither.
C14_StoreMatchesMemory ==
    lastOp.op = "toggleFavorite" =>
        /\ PersistedIds(favItem) = Members(app.favoritesSet)
        /\ lastOp.thrown # "" =>
              /\ app.favoritesSet = lastOp.app.favoritesSet
              /\ favItem = lastOp.favItem

\* C14 witness: the store refused the write that would have removed a
\* favorite; the id is still in the store and in memory.
C14_Witness ==
    /\ lastOp.op = "toggleFavorite"
    /\ lastOp.thrown = QuotaError
    /\ SetHas(app.favoritesSet, lastOp.id)
    /\ lastOp.id \in PersistedIds(favItem)
    /\ Len(app.favoritesSet) = 2

(***************************************************************************)
(* Properties of init's errors, under SpecStartup.                         *)
(***************************************************************************)
\* The message of init's catch (lines 49-55).
InitializationError == showError("Failed to initialize app. Please refresh.")

\* new App() ran in the latest step and could not load the favorites.
SetupFailed == lastOp.op = "init" /\ ~loadFavorites(lastOp.favItem).ok

\* C15: a failure of init's setup, outside the three loads, is reported as
\* the fatal initialization error: when the favorites cannot be loaded from
\* the store, init shows the error and lets nothing escape.
C15_SetupFailureIsFatal ==
    SetupFailed => dom.moviesGrid = InitializationError /\ lastOp.thrown = ""

\* C15, the case that fails: the text under the favorites key is not JSON;
\* the error leaves init and the page shows nothing about it.
C15_Witness ==
    /\ SetupFailed
    /\ lastOp.favItem = GarbageItem
    /\ lastOp.thrown = "SyntaxError"
    /\ dom.moviesGrid = lastOp.dom.moviesGrid
    /\ dom.trendingCarousel = lastOp.dom.trendingCarousel
    /\ inflight = {}

\* The response of a load arrived in the latest step and was a failure.
LoadFailed(kind) ==
    /\ lastOp.op = "response"
    /\ lastOp.task.kind = kind
    /\ ~lastOp.settled.ok

\* C16: a failed trending load shows its error in the trending carousel only,
\* and init goes on to the discover load; a failed discover load shows its
\* error in the movie grid only and leaves the carousel as it was; neither
\* shows the initialization error or lets an error escape.
C16_ScopedLoadErrors ==
    /\ LoadFailed("loadTrendingMovies") =>
          /\ dom.trendingCarousel = showError("Failed to load trending movies")
          /\ dom.moviesGrid = showLoading("Loading movies...")
          /\ Entered("loadDiscoverMovies")
          /\ Len(issued) = 1
          /\ issued[1].path = DiscoverPath
          /\ \E t \in tasks : t.kind = "loadDiscoverMovies"
          /\ lastOp.thrown = ""
    /\ LoadFailed("loadDiscoverMovies") =>
          /\ dom.moviesGrid = showError("Failed to load movies")
          /\ dom.trendingCarousel = lastOp.dom.trendingCarousel
          /\ lastOp.thrown = ""
    /\ dom.moviesGrid # InitializationError

\* C16 witness: with no event from the user, the trending load failed and
\* then the discover load failed: each section shows its own error.
C16_Witness ==
    /\ intents = 0
    /\ LoadFailed("loadDiscoverMovies")
    /\ dom.trendingCarousel = showError("Failed to load trending movies")
    /\ dom.moviesGrid = showError("Failed to load movies")

(***************************************************************************)
(* Properties of the errors of Api.mjs, under SpecDirect and SpecCache.    *)
(***************************************************************************)
\* A fetch of Api.mjs got an HTTP response that is not ok in the latest step.
HttpFailure == lastDone.fn # "" /\ lastDone.response.kind = "http"

\* C17: on a response that is not ok, the fetch, cached or direct, fails
\* with the status_message of the response body when there is one, and with
\* the generic HTTP-status message when there is none.
C17_ErrorCarriesStatusMessage ==
    HttpFailure =>
        /\ ~lastDone.settled.ok
        /\ lastDone.settled.error =
             IF lastDone.response.status_message # ""
               THEN lastDone.response.status_message
               ELSE HttpErrorMessage(lastDone.response.status)

\* C17, the case that fails: a direct fetch got a 401 whose body carries a
\* status_message and failed with the generic message.
C17_Witness ==
    /\ HttpFailure
    /\ lastDone.fn \in {"fetchDiscoverMovies", "fetchSearchMovies"}
    /\ lastDone.response.status_message = "Invalid API key"
    /\ lastDone.settled = Rejected(HttpErrorMessage(401))

\* The step completes a cached fetch whose request succeeded and whose write
\* to the store was refused.
WriteRefused ==
    /\ lastDone'.fn # ""
    /\ lastDone'.key # ""
    /\ lastDone'.response.kind = "ok"
    /\ ~lastDone'.setItemOk

\* C18: when the request of a cached fetch succeeds and the store refuses the
\* entry, the fetch returns the fetched body, raises no error, and leaves the
\* store as it was.
C18_RefusedWriteIsSwallowed ==
    [][WriteRefused =>
          /\ lastDone'.settled = Fulfilled(lastDone'.response.body)
          /\ cache' = cache]_vars

\* C18 witness: the fetch that replaced a stale entry was answered, the store
\* refused the write, the body was returned and the key has no entry.
C18_Witness ==
    /\ lastDone.fn # ""
    /\ lastDone.response.kind = "ok"
    /\ ~lastDone.setItemOk
    /\ lastDone.stale
    /\ lastDone.settled = Fulfilled(lastDone.response.body)
    /\ cache[lastDone.key] = NoItem

(***************************************************************************)
(* Properties of the empty favorites, under SpecFavorites.                 *)
(***************************************************************************)
\* The functions of Api.mjs that read the cache.
CachedFunctions == {e.fn : e \in CachedEndpoints}

\* The step runs showFavorites with an empty favoritesSet: the favorites
\* button was clicked, or the last favorite was removed in the favorites view.
ShowsNoFavorites ==
    /\ SetHas(lastOp'.called, "showFavorites")
    /\ app'.favoritesSet = <<>>

\* C19: showFavorites with an empty favoritesSet sets the view to favorites,
\* shows the empty state, sends no request and reads no cache entry.
C19_EmptyFavoritesShortCircuit ==
    [][ShowsNoFavorites =>
          /\ app'.currentView = "favorites"
          /\ dom'.moviesGrid = showNoResults("You have no favorites yet")
          /\ issued' = <<>>
          /\ inflight' = inflight
          /\ tasks' = tasks
          /\ cache' = cache
          /\ \A i \in 1..Len(lastOp'.called) :
                lastOp'.called[i] \notin CachedFunctions]_vars

\* C19 witness: the favorites button was clicked in the discover view with
\* no favorites: the view is favorites and the grid shows the empty state.
C19_Witness ==
    /\ lastOp.op = "showFavorites"
    /\ lastOp.app.favoritesSet = <<>>
    /\ lastOp.app.currentView = "discover"
    /\ app.currentView = "favorites"
    /\ dom.moviesGrid = showNoResults("You have no favorites yet")
    /\ issued = <<>>
    /\ lastOp.called = <<"showFavorites">>

(***************************************************************************)
(* Properties of the empty search, under SpecBrowse.                       *)
(***************************************************************************)
\* The step is the debounce timer handing handleSearch a text that is empty
\* once trimmed.
EmptySearch == lastOp'.op = "handleSearch" /\ Trim(lastOp'.text) = <<>>

\* C20: a search whose query is empty or only white space does what clear-all
\* would do in the same state: the query empty, the filters empty, the view
\* discover, the page reset, and one discover request as the only request.
C20_EmptySearchIsClearAll ==
    [][EmptySearch =>
          /\ \E random \in Pages :
                LET w == clearAllFilters([World EXCEPT !.app.searchTimeout = 0],
                                         random)
                IN /\ app' = w.app
                   /\ dom' = w.dom
                   /\ issued' = w.issued
                   /\ inflight' = w.inflight
                   /\ tasks' = w.tasks
                   /\ cache' = w.cache
          /\ app'.searchQuery = <<>>
          /\ app'.currentFilters = NoFilters
          /\ app'.currentView = "discover"
          /\ Len(issued') = 1
          /\ issued'[1].path = DiscoverPath]_vars

\* C20 witness: with a filter set, the user typed a blank; the search it
\* started left the filters empty and sent one discover request.
C20_Witness ==
    /\ lastOp.op = "handleSearch"
    /\ lastOp.text = <<" ">>
    /\ lastOp.app.currentFilters # NoFilters
    /\ app.currentFilters = NoFilters
    /\ app.searchQuery = <<>>
    /\ app.currentView = "discover"
    /\ dom.searchInput = <<>>
    /\ Len(issued) = 1
    /\ issued[1].path = DiscoverPath

(***************************************************************************)
(* Properties of superseded requests, under SpecBrowse.                    *)
(***************************************************************************)
\* The step is the arrival of the response a task of the given kind awaits.
Settles(kind) == lastOp'.op = "response" /\ lastOp'.task.kind = kind

\* C21: a request in flight is neither cancelled nor discarded: no event of
\* the user takes a request or a waiting task away, and the response of a
\* discover or search fetch is put on the grid whatever the view and the
\* query have become since.
C21_NoCancellation ==
    [][/\ lastOp'.op # "response" =>
             /\ inflight \subseteq inflight'
             /\ tasks \subseteq tasks'
       /\ Settles("handleSearch") =>
             dom'.moviesGrid =
                IF lastOp'.settled.ok
                  THEN displayMovies(sortMovies(engine, lastOp'.settled.value.array,
                                                app.currentFilters.sort))
                  ELSE showError("Search failed. Please try again.")
       /\ Settles("loadDiscoverMovies") =>
             dom'.moviesGrid =
                IF lastOp'.settled.ok
                  THEN displayMovies(lastOp'.settled.value.array)
                  ELSE showError("Failed to load movies")]_vars

\* C21 witness: the user searched and then cleared; the discover response
\* came first and the search response after it.  No request is in flight,
\* the view is discover with no query, and the grid shows the search result.
C21_Witness ==
    /\ inflight = {}
    /\ tasks = {}
    /\ lastOp.op = "response"
    /\ lastOp.task.kind = "handleSearch"
    /\ lastOp.settled.ok
    /\ app.currentView = "discover"
    /\ app.searchQuery = <<>>
    /\ lastOp.dom.moviesGrid.kind = "movies"
    /\ lastOp.dom.moviesGrid.movies = <<M101, M404, M202>>
    /\ dom.moviesGrid.kind = "movies"
    /\ dom.moviesGrid.movies = lastOp.settled.value.array
    /\ dom.moviesGrid.movies # lastOp.dom.moviesGrid.movies

(***************************************************************************)
(* Properties of the entries of the response cache, under SpecCache.       *)
(***************************************************************************)
\* JSON.parse throws on the stored text.
FailsToParse(item) == Truthy(item) /\ ParseThrows(item)

\* C22: a cached fetch that finds an entry that is stale or fails to parse
\* discards it before the request: the key has no entry when the request
\* leaves, and when the fetch has completed, with a response or a failure,
\* the old entry is not in the store.
C22_OldEntryDiscarded ==
    /\ (CachedCall /\ (FoundStale \/ FailsToParse(lastCall.before))) =>
          lastCall.after = NoItem
    /\ (CachedDone /\ (lastDone.stale \/ FailsToParse(lastDone.before))) =>
          lastDone.after # lastDone.before

\* The same for stale entries only.
C22_StaleEntryDiscarded ==
    /\ (CachedCall /\ FoundStale) => lastCall.after = NoItem
    /\ (CachedDone /\ lastDone.stale) => lastDone.after # lastDone.before

\* C22, the case that fails: the fetch found text that is not JSON, the
\* request failed, and the text is still in the store.
C22_Witness ==
    /\ CachedDone
    /\ lastDone.before = GarbageItem
    /\ lastDone.response.kind # "ok"
    /\ ~lastDone.settled.ok
    /\ cache[lastDone.key] = GarbageItem

\* C23: a cache hit changes nothing in the store, and an entry's timestamp
\* is the time of the write that created it: a step that leaves an entry
\* under a key that was not there before is a write at the current time.
C23_HitLeavesStore ==
    [][/\ lastCall'.hit => cache' = cache
       /\ \A k \in CacheKeys :
             (HasTimestamp(cache'[k]) /\ cache'[k] # cache[k]) =>
                 /\ cache'[k].timestamp = now
                 /\ lastDone'.key = k
                 /\ lastDone'.response.kind = "ok"]_vars

\* C23 witness: the entry the first call wrote was returned by the second
\* call at a later time; it still carries the time of its write.
C23_Witness ==
    /\ lastCall.hit
    /\ calls = MaxCalls
    /\ lastCall.before.timestamp = StartTime
    /\ lastCall.at > StartTime
    /\ cache[lastCall.key] = lastCall.before
    /\ lastCall.data = lastCall.before.data

(***************************************************************************)
(* Properties of the toggle in the favorites view, under SpecFavorites.    *)
(***************************************************************************)
\* The latest step was a favorite-toggle whose store call did not fail.
Toggled == lastOp.op = "toggleFavorite" /\ lastOp.thrown = ""

\* The ids of the cards in the grid.
DisplayedIds == Members(dom.moviesGrid.cards)

\* The latest step completed a recomputation of the favorites view with
\* every fetch successful and no request left in flight: the toggle found
\* every favorite in the cache, or the last response arrived.
FavoritesRecomputed ==
    /\ inflight = {}
    /\ \/ Toggled /\ lastOp.app.currentView = "favorites"
       \/ FavoritesSettled /\ lastOp.settled.ok /\ OthersFulfilled

\* C24: a toggle in the favorites view starts showFavorites in the same
\* call, and once every request has completed successfully the grid shows
\* exactly the ids of favoritesSet; a toggle in another view sends no
\* request and leaves the grid as it is.
C24_ToggleRecomputesFavorites ==
    /\ (Toggled /\ lastOp.app.currentView = "favorites") => Entered("showFavorites")
    /\ FavoritesRecomputed => DisplayedIds = Members(app.favoritesSet)
    /\ (Toggled /\ lastOp.app.currentView # "favorites") =>
          /\ ~Entered("showFavorites")
          /\ issued = <<>>
          /\ dom.moviesGrid = lastOp.dom.moviesGrid

\* The same when every favorite fetched has a poster.
C24_WithPosters ==
    /\ (Toggled /\ lastOp.app.currentView = "favorites") => Entered("showFavorites")
    /\ (FavoritesRecomputed
          /\ \A i \in 1..Len(dom.moviesGrid.movies) :
                dom.moviesGrid.movies[i].poster_path # "") =>
          DisplayedIds = Members(app.favoritesSet)
    /\ (Toggled /\ lastOp.app.currentView # "favorites") =>
          /\ ~Entered("showFavorites")
          /\ issued = <<>>
          /\ dom.moviesGrid = lastOp.dom.moviesGrid

\* C24, the case that fails: in the favorites view the user removed a
\* favorite; the one that is left has no poster, and the recomputed grid
\* shows no card for it.
C24_Witness ==
    /\ Toggled
    /\ lastOp.app.currentView = "favorites"
    /\ SetHas(lastOp.app.favoritesSet, lastOp.id)
    /\ Len(app.favoritesSet) = 1
    /\ inflight = {}
    /\ dom.moviesGrid.kind = "no-results"
    /\ Len(dom.moviesGrid.movies) = 1
    /\ dom.moviesGrid.movies[1].id = app.favoritesSet[1]
    /\ dom.moviesGrid.cards = <<>>

(***************************************************************************)
(* Properties of the filters, under SpecBrowse.                            *)
(***************************************************************************)
\* C25: a filter-change sets the three filters to the values the selects
\* hold and sends one request: with a search query active the view becomes
\* search and the request is the search of that query with the new filters;
\* otherwise the view becomes discover and the request is the discover
\* request of the new filters.
C25_FilterChangeRoutes ==
    lastOp.op = "handleFilterChange" =>
        /\ app.currentFilters =
               Filters(dom.genreFilter, dom.yearFilter, dom.sortFilter)
        /\ app.searchQuery = lastOp.app.searchQuery
        /\ Len(issued) = 1
        /\ IF lastOp.app.searchQuery # <<>>
             THEN /\ app.currentView = "search"
                  /\ issued[1] = SearchUrl(app.searchQuery, app.currentFilters)
                  /\ issued[1].path = SearchPath
             ELSE /\ app.currentView = "discover"
                  /\ \E random \in Pages :
                        issued[1] = DiscoverUrl(app.currentFilters, random)
                  /\ issued[1].path = DiscoverPath

\* C25 witness: in the favorites view, with no search query, the user picked
\* a year: the view is discover and the discover request carries the year.
C25_Witness ==
    /\ lastOp.op = "handleFilterChange"
    /\ lastOp.app.currentView = "favorites"
    /\ lastOp.app.currentFilters = NoFilters
    /\ app.currentFilters = Filters("", "2020", "")
    /\ app.currentView = "discover"
    /\ issued = <<DiscoverUrl(app.currentFilters, 1)>>

(***************************************************************************)
(* Properties of the order of the startup loads, under SpecStartup.        *)
(***************************************************************************)
\* The latest step was the arrival of the response the given load awaited.
LoadSettled(kind) == lastOp.op = "response" /\ lastOp.task.kind = kind

Waiting(kind) == \E t \in tasks : t.kind = kind

InFlight(fn) == \E r \in inflight : r.fn = fn

\* C26: init loads the favorites before it sends any request, sends the
\* trending request only in the step in which the genre load settles and the
\* default discover request only in the step in which the trending load
\* settles; a failed genre load leaves genresMap empty and the two other
\* loads still run.
C26_StartupInSequence ==
    /\ lastOp.op = "init" =>
          IF loadFavorites(lastOp.favItem).ok
            THEN /\ app.favoritesSet = loadFavorites(lastOp.favItem).set
                 /\ issued = <<GenresEndpoint.url>>
                 /\ Waiting("loadGenres")
            ELSE issued = <<>> /\ inflight = {}
    /\ Waiting("loadGenres") =>
          /\ ~InFlight("fetchTrendingMovies")
          /\ ~Waiting("loadTrendingMovies")
          /\ dom.trendingCarousel = showLoading("Loading trending movies...")
    /\ (intents = 0 /\ (Waiting("loadGenres") \/ Waiting("loadTrendingMovies"))) =>
          /\ ~InFlight("fetchDiscoverMovies")
          /\ ~Waiting("loadDiscoverMovies")
    /\ LoadSettled("loadGenres") =>
          /\ issued = <<TrendingEndpoint.url>>
          /\ Waiting("loadTrendingMovies")
          /\ ~lastOp.settled.ok => app.genresMap = {}
    /\ LoadSettled("loadTrendingMovies") =>
          /\ Len(issued) = 1
          /\ issued[1].path = DiscoverPath
          /\ Waiting("loadDiscoverMovies")

\* C26 witness: the genre load failed, the trending load was answered, and
\* init sent the default discover request with genresMap empty.
C26_Witness ==
    /\ intents = 0
    /\ LoadSettled("loadTrendingMovies")
    /\ lastOp.settled.ok
    /\ app.genresMap = {}
    /\ dom.genreOptions = {}
    /\ app.favoritesSet = <<"101">>
    /\ Len(issued) = 1
    /\ issued[1].path = DiscoverPath

(***************************************************************************)
(* Properties of the order sortMovies returns, under SpecSort.             *)
(***************************************************************************)
PositionIn(list, m) == CHOOSE i \in 1..Len(list) : list[i] = m

\* Two movies compare equal under a key when each is in order before the
\* other.
EqualUnder(a, b, key) == InOrder(a, b, key) /\ InOrder(b, a, key)

\* Movies that compare equal under the key are in the second list in the
\* relative order they have in the first.
KeepsTies(before, after, key) ==
    \A i, j \in 1..Len(before) :
        (i < j /\ EqualUnder(before[i], before[j], key)) =>
            PositionIn(after, before[i]) < PositionIn(after, before[j])

SortedCall == sortCalls >= 1 /\ sortBy \in SortKeys

AllDated(list) ==
    \A i \in 1..Len(list) : ~DateValue(list[i].release_date).nan

\* C27: for each recognized sort key sortMovies returns a permutation of
\* its input that is ordered by the key (popularity, vote average and
\* release date descending, title ascending), and movies that compare equal
\* under the key keep their relative input order.
C27_SortedByKey ==
    SortedCall =>
        /\ IsPermutation(returned, given)
        /\ OrderedBy(returned, sortBy)
        /\ KeepsTies(given, returned, sortBy)

\* What holds of every call: the result is a permutation that keeps ties,
\* and it is ordered by the key unless the key is the release date and a
\* movie of the list has none.
C27_SortedUnlessUndated ==
    SortedCall =>
        /\ IsPermutation(returned, given)
        /\ KeepsTies(given, returned, sortBy)
        /\ (sortBy # "release_date.desc" \/ AllDated(given)) =>
              OrderedBy(returned, sortBy)

\* C27, the case that fails: a list with a movie without release date
\* between two dated movies was sorted by release date and came back with
\* the movie of 2020 before the movie of 2022.
C27_Witness ==
    /\ sortCalls = 1
    /\ sortBy = "release_date.desc"
    /\ given = <<M101, M303, M202>>
    /\ PositionIn(returned, M101) < PositionIn(returned, M202)

(***************************************************************************)
(* Properties of the debounce timer of the search input, under SpecBrowse. *)
(* searchTimeout holds the instant at which the pending timer is due, and  *)
(* 0 when no timer is pending.                                             *)
(***************************************************************************)
TimerPending == app.searchTimeout # 0

\* C28: the search input is debounced.  One field holds the one pending
\* timer; every input event replaces it by a timer due 500 ms later and
\* calls nothing; the timer's callback runs only when the timer is due, so
\* not before 500 ms after the latest input event, it calls handleSearch
\* with the value the input has at that moment and leaves no timer pending,
\* so a burst is answered by one call; no other step starts, moves or
\* cancels the timer.
C28_Debounced ==
    [][/\ lastOp'.op = "input" =>
             /\ app'.searchTimeout = now + DebounceMs
             /\ dom'.searchInput = lastOp'.text
             /\ lastOp'.called = <<>>
             /\ inflight' = inflight
       /\ lastOp'.op = "handleSearch" =>
             /\ TimerPending
             /\ now >= app.searchTimeout
             /\ app'.searchTimeout = 0
             /\ lastOp'.text = dom.searchInput
             /\ Head(lastOp'.called) = "handleSearch"
             /\ Cardinality({i \in 1..Len(lastOp'.called) :
                                 lastOp'.called[i] = "handleSearch"}) = 1
       /\ lastOp'.op \notin {"input", "handleSearch"} =>
             app'.searchTimeout = app.searchTimeout
      ]_vars

\* C28 witness: the user typed twice within the same instant, 500 ms later
\* the timer fired once, and the one request in flight is the search for
\* what the input held then.
C28_Witness ==
    /\ lastOp.op = "handleSearch"
    /\ intents = 2
    /\ now = StartTime + DebounceMs
    /\ lastOp.app.searchTimeout = StartTime + DebounceMs
    /\ lastOp.text = <<" ", "a", "&">>
    /\ ~TimerPending
    /\ app.searchQuery = <<"a", "&">>
    /\ Cardinality(inflight) = 1
    /\ issued = <<SearchUrl(app.searchQuery, NoFilters)>>
    /\ lastOp.dom.moviesGrid = Loaded(NoItem).dom.moviesGrid

(***************************************************************************)
(* Properties of a clear-all that finds the debounce timer pending, under  *)
(* SpecBrowse.                                                             *)
(***************************************************************************)
SessionReset(a, d) ==
    /\ a.searchQuery = <<>>
    /\ a.currentFilters = NoFilters
    /\ a.currentView = "discover"
    /\ d.searchInput = <<>>
    /\ d.genreFilter = "" /\ d.yearFilter = "" /\ d.sortFilter = ""

SendsNoSearch ==
    /\ \A r \in inflight' \ inflight : r.fn # "fetchSearchMovies"
    /\ \A i \in 1..Len(issued') : issued'[i].path # SearchPath

\* C29: a clear-all empties the search input and leaves a pending debounce
\* timer pending; only an input event puts text into the input; and the
\* timer that fires on the empty input sends no search request and leaves
\* the session reset: query empty, filters empty, view discover.  So a
\* clear-all that is followed by no input is not undone by the timer of the
\* typing before it.
C29_ClearOutlivesTimer ==
    [][/\ lastOp'.op = "clearAllFilters" =>
             /\ SessionReset(app', dom')
             /\ app'.searchTimeout = app.searchTimeout
       /\ lastOp'.op # "input" => dom'.searchInput \in {dom.searchInput, <<>>}
       /\ (lastOp'.op = "handleSearch" /\ dom.searchInput = <<>>) =>
             /\ SendsNoSearch
             /\ SessionReset(app', dom')
      ]_vars

\* C29 witness: the user typed and clicked clear within the same instant;
\* 500 ms later the timer of the typing fired on the empty input: the
\* session is reset and the two requests in flight are the discover request
\* of the click and the discover request of the timer.
C29_Witness ==
    /\ lastOp.op = "handleSearch"
    /\ lastOp.text = <<>>
    /\ intents = 2
    /\ now = StartTime + DebounceMs
    /\ SessionReset(lastOp.app, lastOp.dom)
    /\ SessionReset(app, dom)
    /\ Cardinality(inflight) = 2
    /\ \A r \in inflight : r.fn = "fetchDiscoverMovies"
    /\ Len(issued) = 1

(***************************************************************************)
(* Properties of the content of the hidden modal, under SpecDetails.       *)
(***************************************************************************)
ModalHidden == ~dom.modalOverlay

\* C30: whenever the movie-detail modal is hidden its content container is
\* empty: closing it clears the content, and a detail or video response that
\* arrives after the user closed it puts no content back.
C30_HiddenModalIsEmpty ==
    ModalHidden => dom.modalContentContainer = ModalBlank

\* What holds: the close itself leaves the modal hidden and empty, and only
\* a click on a card makes the modal visible.
C30_CloseClears ==
    /\ lastOp.op = "close" =>
          ModalHidden /\ dom.modalContentContainer = ModalBlank
    /\ (lastOp.op # "" /\ ~lastOp.dom.modalOverlay /\ ~ModalHidden) =>
          "showMovieDetails" \in Members(lastOp.called)

\* C30, the case that fails: the user closed the modal while both requests
\* were in flight; the response that completed the pair arrived afterwards
\* and put the details into the hidden modal, which the close had emptied.
C30_Witness ==
    /\ lastOp.op = "response"
    /\ lastOp.task.kind = "showMovieDetails"
    /\ ~lastOp.dom.modalOverlay
    /\ lastOp.dom.modalContentContainer = ModalBlank
    /\ ModalHidden
    /\ dom.modalContentContainer.kind = "details"

(***************************************************************************)
(* Properties of the clear button and the trending section.                *)
(***************************************************************************)
\* The session is away from the default view: a filter or a query is set,
\* or the view is the favorites.
SessionNarrowed ==
    \/ app.currentFilters.genre # ""
    \/ app.currentFilters.year # ""
    \/ app.currentFilters.sort # ""
    \/ app.searchQuery # <<>>
    \/ app.currentView = "favorites"

ClearShownTrendingHidden == dom.clearBtn /\ ~dom.trendingSection

\* C31: once the controller has started, the clear button is visible and the
\* trending section is hidden if and only if a filter (genre, year or sort)
\* is set, or the search query is not empty, or the view is the favorites.
C31_ClearButtonIffNarrowed ==
    app.started => (ClearShownTrendingHidden <=> SessionNarrowed)

\* What holds in every state: the clear button is visible exactly when the
\* trending section is hidden, and a narrowed session has the button
\* visible and the section hidden.
C31_NarrowedShowsClear ==
    app.started =>
        /\ dom.clearBtn <=> ~dom.trendingSection
        /\ SessionNarrowed => ClearShownTrendingHidden

\* C31, the case that fails: the user asked for the favorites while the
\* trending load of the startup was in progress; the load settled and init
\* went on to loadDiscoverMovies, which set the view to discover: no filter,
\* no query, the view discover, and the page still that of the favorites,
\* with the clear button visible and the trending section hidden.
C31_Witness ==
    /\ LoadSettled("loadTrendingMovies")
    /\ intents = 1
    /\ lastOp.app.currentView = "favorites"
    /\ app.currentView = "discover"
    /\ ~SessionNarrowed
    /\ dom.title = "My Favorite Movies"
    /\ ClearShownTrendingHidden

====
